---------------------------- MODULE Spec2Model ----------------------------
(***************************************************************************)
(* A model of ApexSketch.py, the synthesis of sketch primitives and        *)
(* constraints from polygons and circles, and of the walk of the JSON      *)
(* tree in CQtoFC.py.                                                      *)
(*                                                                         *)
(* Lengths are integers counted in ticks of half a nanometre (5e-10), so   *)
(* that the 1e-9 tolerance of ApexPolygon.features_get is LineEpsilon = 2  *)
(* ticks.  Angles are integers counted in degrees.  Polygons are           *)
(* rectilinear: at every rounded vertex the two adjacent edges are         *)
(* parallel to an axis, which keeps the arc solver's arithmetic exact.     *)
(*                                                                         *)
(* The specifications share the variables: SpecPolygon follows one polygon *)
(* from its points to its constraints, Spec follows a drawing from its     *)
(* elements through plane_process, SpecRerun runs plane_process a second   *)
(* time, SpecSketch follows one sketch() step by step, SpecChain calls     *)
(* features_get on one element again and again, SpecReorient reorients one *)
(* named element, SpecPlace reorients a drawing, SpecIndex follows the     *)
(* index of one feature through reads and writes, SpecArc hands single     *)
(* corners, oblique ones included, to the arc solver, and SpecWalk follows *)
(* FabCQtoFC through the nodes of a tree.                                  *)
(***************************************************************************)
EXTENDS Integers, Sequences, FiniteSets, TLC

\* ------------------------------------------------------------------ bounds
MaxPoints == 4      \* longest point loop of a polygon
MaxRadius == 2      \* rounding radii of polygon points are 0..MaxRadius
MaxElements == 2    \* longest tuple of elements of a drawing
MaxOps == 4         \* most reads and writes of one feature's index

\* ------------------------------------------------------- program constants
UnsetIndex == -999  \* ApexFeature._index / ApexDrawing._origin_index when unset
LineEpsilon == 2    \* epsilon = 1e-9 of features_get, in ticks of 5e-10
RootOrigin == -1    \* the sketch's root origin, as a geometry index
Degrees180 == 180   \* pi
Degrees360 == 360   \* 2 * pi

VARIABLES
    points,         \* ApexPolygon._points: the loop of [x, y, radius]
    features,       \* ApexPolygon._features: <<>> is None
    constraints,    \* the constraints list that sketch() builds
    origin_index,   \* ApexDrawing._origin_index
    elements,       \* the tuple of elements the caller passes to ApexDrawing
    exterior,       \* the exterior the caller passes to ApexDrawing
    drawing,        \* the ApexDrawing constructed, NoDrawing if none
    groups,         \* plane_process: the groups in the order of the loop
    sketches,       \* the sketch objects plane_process added to the body
    operations,     \* the Pad, Hole and Pocket objects added to the body
    feature_index,  \* ApexFeature._index of one feature
    log,            \* the reads and writes of that feature's index so far
    featured,       \* the element that features_get() is called on
    kept,           \* its _features or _circle_feature, as object identities
    returned,       \* what each features_get() call returned and constructed
    constructed,    \* how many feature objects have been constructed so far
    run,            \* which run of plane_process on the drawing this is
    first,          \* what the first run left behind, for the second to be compared
    placed,         \* the call of drawing.reorient() and the drawing it returned
    solved,         \* the corner handed to the arc solver and how the solver ended
    converter,      \* the fields of the FabCQtoFC object
    indent,         \* the indent argument of process()
    visited,        \* the Kind of each node processed so far, in the order of the walk
    reoriented,     \* the element that reorient() is called on, and then its result
    reorient_log,   \* the reorient() calls so far
    pc,             \* where the run is
    error           \* the message of the exception raised, "" if none

polygonVars == <<points, features, constraints, origin_index>>
drawingVars == <<elements, exterior, drawing, groups, sketches, operations>>
indexVars == <<feature_index, log>>
reorientVars == <<reoriented, reorient_log>>
chainVars == <<featured, kept, returned, constructed>>
rerunVars == <<run, first>>
placeVars == <<placed>>
arcVars == <<solved>>
walkVars == <<converter, indent, visited>>
otherVars == <<reorientVars, chainVars, rerunVars, placeVars, arcVars, walkVars>>
vars == <<polygonVars, drawingVars, indexVars, otherVars, pc, error>>

\* ----------------------------------------------------------- ApexPoint
Abs(n) == IF n < 0 THEN -n ELSE n
Sgn(n) == IF n > 0 THEN 1 ELSE IF n < 0 THEN -1 ELSE 0

Point(x, y) == [x |-> x, y |-> y]
PointSub(p, q) == Point(p.x - q.x, p.y - q.y)
PointAdd(p, q) == Point(p.x + q.x, p.y + q.y)
PointMul(p, k) == Point(p.x * k, p.y * k)

\* ApexPoint.magnitude() of a vector parallel to an axis.
Magnitude(p) == Abs(p.x) + Abs(p.y)

AxisParallel(p) == p.x = 0 \/ p.y = 0

\* ApexPoint.atan2() in degrees, in (-180, 180], of a vector whose direction
\* is a multiple of 45 degrees.
Atan2(p) ==
    LET sx == Sgn(p.x)
        sy == Sgn(p.y)
    IN  CASE sx = 1 /\ sy = 0 -> 0
          [] sx = 1 /\ sy = 1 -> 45
          [] sx = 0 /\ sy = 1 -> 90
          [] sx = -1 /\ sy = 1 -> 135
          [] sx = -1 /\ sy = 0 -> 180
          [] sx = -1 /\ sy = -1 -> -135
          [] sx = 0 /\ sy = -1 -> -90
          [] sx = 1 /\ sy = -1 -> -45
          [] OTHER -> 0

\* --------------------------------------------------------- ApexFeature
\* One record shape for the four feature classes; a field a class does not
\* have holds the value of NoPoint or 0.
NoPoint == Point(0, 0)

Feature(kind, start, finish, apex, center, radius, sweep, startAngle, endAngle) ==
    [kind |-> kind, index |-> UnsetIndex, start |-> start, finish |-> finish,
     apex |-> apex, center |-> center, radius |-> radius,
     sweep_angle |-> sweep, start_angle |-> startAngle, end_angle |-> endAngle]

ApexLineFeature(start, finish) ==
    Feature("Line", start, finish, NoPoint, NoPoint, 0, 0, 0, 0)

ApexPointFeature(point) ==
    Feature("Point", point, point, NoPoint, NoPoint, 0, 0, 0, 0)

ApexCircleFeature(center, radius) ==
    Feature("Circle", center, center, NoPoint, center, radius, 0, 0, 0)

IsArc(f) == f.kind = "Arc"


\* ApexArcFeature.start_key / ApexLineFeature.start_key
start_key(f) ==
    IF IsArc(f) THEN (IF f.sweep_angle < 0 THEN 1 ELSE 2) ELSE 1

\* ApexArcFeature.finish_key / ApexLineFeature.finish_key
finish_key(f) ==
    IF IsArc(f) THEN (IF f.sweep_angle < 0 THEN 2 ELSE 1) ELSE 2

\* ------------------------------------------------- ApexArcFeature.__init__
Sqrt(n) == CHOOSE k \in 0..n : k * k = n

Failure(message) == [ok |-> FALSE, error |-> message, feature |-> ApexPointFeature(NoPoint)]
Success(feature) == [ok |-> TRUE, error |-> "", feature |-> feature]

\* SweepAngle without the correction by 360 degrees.
SweepAngle_Raw(start_angle, finish_angle) == finish_angle - start_angle

\* sweep_angle = finish_angle - start_angle, brought back once by 360 degrees.
SweepAngle(start_angle, finish_angle) ==
    LET sweep == finish_angle - start_angle
    IN  IF sweep > Degrees180 THEN sweep - Degrees360
        ELSE IF sweep <= -Degrees180 THEN sweep + Degrees360
        ELSE sweep

\* ArcAngles that never swaps the two angles.
ArcAngles_NoSwap(r, a, c, s, f, start_angle, finish_angle) ==
    LET sweep_angle == SweepAngle(start_angle, finish_angle)
    IN  Feature("Arc", s, f, a, c, r, sweep_angle, start_angle, start_angle + sweep_angle)

\* The end of the constructor: the sweep of the arc, and its start and end
\* angles, which are swapped when the sweep is negative.
ArcAngles(r, a, c, s, f, start_angle, finish_angle) ==
    LET sweep_angle == SweepAngle(start_angle, finish_angle)
        end_angle == start_angle + sweep_angle
    IN  Feature("Arc", s, f, a, c, r, sweep_angle,
                IF sweep_angle < 0 THEN end_angle ELSE start_angle,
                IF sweep_angle < 0 THEN start_angle ELSE end_angle)

\* ArcPoints with the center twice as far from the apex.
ArcPoints_FarCenter(r, a, unit_ab, unit_ae) ==
    LET am == PointAdd(unit_ab, unit_ae)
        c == PointAdd(a, PointMul(am, 2 * r))
        s == PointAdd(a, PointMul(unit_ab, r))
        f == PointAdd(a, PointMul(unit_ae, r))
    IN  ArcAngles(r, a, c, s, f, Atan2(PointSub(s, c)), Atan2(PointSub(f, c)))

\* The middle of the constructor: the center c and the tangent points s and
\* f, from the unit vectors of the two edges.
ArcPoints(r, a, unit_ab, unit_ae) ==
    LET am == PointAdd(unit_ab, unit_ae)
        \* sac_angle is 45 or 135 degrees here: 1 / sin(sac_angle)^2 = 2
        ac_length_squared == 2 * r * r
        as_length == Sqrt(ac_length_squared - r * r)
        af_length == as_length
        \* unit_am * ac_length = (am / sqrt 2) * (r * sqrt 2) = am * r
        c == PointAdd(a, PointMul(am, r))
        s == PointAdd(a, PointMul(unit_ab, as_length))
        f == PointAdd(a, PointMul(unit_ae, af_length))
    IN  ArcAngles(r, a, c, s, f, Atan2(PointSub(s, c)), Atan2(PointSub(f, c)))

\* The arc of radius apex.radius tangent to the edges apex-begin and apex-end.
\* normalize_2d divides by the vector's length and sin(sac_angle) divides the
\* radius: either raises ZeroDivisionError when it is zero.
ApexArcFeature(begin, apex, end) ==
    LET r == apex.radius
        a == Point(apex.x, apex.y)
        ab == PointSub(Point(begin.x, begin.y), a)
        ae == PointSub(Point(end.x, end.y), a)
        unit_ab == Point(Sgn(ab.x), Sgn(ab.y))
        unit_ae == Point(Sgn(ae.x), Sgn(ae.y))
        am == PointAdd(unit_ab, unit_ae)
        ab_angle == Atan2(ab)
        am_angle == Atan2(am)
        sac_angle == Abs(ab_angle - am_angle) % Degrees180
    IN  IF 5 * r < 1 THEN Failure("No Arc with zero radius.")
        ELSE IF Magnitude(ab) = 0 \/ Magnitude(ae) = 0 THEN Failure("ZeroDivisionError")
        ELSE IF Magnitude(am) = 0 THEN Failure("ZeroDivisionError")
        ELSE IF sac_angle = 0 THEN Failure("ZeroDivisionError")
        ELSE Success(ArcPoints(r, a, unit_ab, unit_ae))

\* The solver on a corner whose edges need not be parallel to an axis.
Cross(p, q) == p.x * q.y - p.y * q.x

\* How ApexArcFeature(begin, apex, end) ends: "" when it returns an arc, the
\* message of the exception otherwise.  The solver has no test for a colinear
\* corner: it fails there only when a divisor is exactly 0.0.  Along an axis
\* the quotients of normalize_2d are exactly 0.0 and +-1.0, and the divisor
\* is exactly zero.  On an oblique line each quotient is a rounded float:
\* rounding is what the rounded quotients leave, in units of the last place,
\* in the divisor (the length of unit_ab + unit_ae when they are opposite,
\* sin(sac_angle) when they are equal), and only a rounding of zero raises.
arc_error(begin, apex, end, rounding) ==
    LET r == apex.radius
        a == Point(apex.x, apex.y)
        ab == PointSub(Point(begin.x, begin.y), a)
        ae == PointSub(Point(end.x, end.y), a)
    IN  IF 5 * r < 1 THEN "No Arc with zero radius."
        ELSE IF Magnitude(ab) = 0 \/ Magnitude(ae) = 0 THEN "ZeroDivisionError"
        ELSE IF AxisParallel(ab) /\ AxisParallel(ae)
        THEN ApexArcFeature(begin, apex, end).error
        ELSE IF Cross(ab, ae) = 0 /\ rounding = 0 THEN "ZeroDivisionError"
        ELSE ""

\* No corner has been handed to the solver.
NoSolved ==
    [begin |-> [x |-> 0, y |-> 0, radius |-> 0], apex |-> [x |-> 0, y |-> 0, radius |-> 0],
     end |-> [x |-> 0, y |-> 0, radius |-> 0], called |-> FALSE, error |-> ""]

\* ------------------------------------------------ ApexPolygon.features_get
Before(i, n) == ((i + n - 2) % n) + 1
After(i, n) == (i % n) + 1

HasArc(pts, i) == pts[i].radius > 0

\* Pass 1: the arc of each point with a radius.
Arcs(pts) ==
    [i \in 1..Len(pts) |->
        ApexArcFeature(pts[Before(i, Len(pts))], pts[i], pts[After(i, Len(pts))])]

ArcsFail(pts, arcs) == \E i \in 1..Len(pts) : HasArc(pts, i) /\ ~arcs[i].ok

FirstArcFailure(pts, arcs) ==
    LET i == CHOOSE j \in 1..Len(pts) :
                 /\ HasArc(pts, j) /\ ~arcs[j].ok
                 /\ \A k \in 1..(j - 1) : ~(HasArc(pts, k) /\ ~arcs[k].ok)
    IN  arcs[i].error

\* EdgeVerdict with the tolerance of the comparison replaced by equality.
EdgeVerdict_Exact(pts, arcs, i) ==
    LET n == Len(pts)
        b == Before(i, n)
        before_arc == arcs[b].feature
        at_arc == arcs[i].feature
        line_length == Magnitude(PointSub(pts[b], pts[i]))
        before_length == Magnitude(PointSub(before_arc.finish, before_arc.apex))
        at_length == Magnitude(PointSub(at_arc.start, at_arc.apex))
        arc_lengths == before_length + at_length
    IN  IF HasArc(pts, b) /\ HasArc(pts, i)
        THEN IF arc_lengths = line_length THEN "suppressed"
             ELSE IF arc_lengths > line_length THEN "too big"
             ELSE "line"
        ELSE "line"

\* EdgeVerdict that never finds the arcs too big.
EdgeVerdict_NeverTooBig(pts, arcs, i) ==
    LET n == Len(pts)
        b == Before(i, n)
        before_arc == arcs[b].feature
        at_arc == arcs[i].feature
        line_length == Magnitude(PointSub(pts[b], pts[i]))
        before_length == Magnitude(PointSub(before_arc.finish, before_arc.apex))
        at_length == Magnitude(PointSub(at_arc.start, at_arc.apex))
        arc_lengths == before_length + at_length
    IN  IF HasArc(pts, b) /\ HasArc(pts, i)
        THEN IF Abs(arc_lengths - line_length) < LineEpsilon THEN "suppressed"
             ELSE "line"
        ELSE "line"

\* Pass 2, for the edge that ends at point i: "line", "suppressed" or "too big".
EdgeVerdict(pts, arcs, i) ==
    LET n == Len(pts)
        b == Before(i, n)
        before_arc == arcs[b].feature
        at_arc == arcs[i].feature
        line_length == Magnitude(PointSub(pts[b], pts[i]))
        before_length == Magnitude(PointSub(before_arc.finish, before_arc.apex))
        at_length == Magnitude(PointSub(at_arc.start, at_arc.apex))
        arc_lengths == before_length + at_length
    IN  IF HasArc(pts, b) /\ HasArc(pts, i)
        THEN IF Abs(arc_lengths - line_length) < LineEpsilon THEN "suppressed"
             ELSE IF arc_lengths > line_length THEN "too big"
             ELSE "line"
        ELSE "line"

LineOf(pts, arcs, i) ==
    LET b == Before(i, Len(pts))
        start == IF HasArc(pts, b) THEN arcs[b].feature.finish
                 ELSE Point(pts[b].x, pts[b].y)
        finish == IF HasArc(pts, i) THEN arcs[i].feature.start
                  ELSE Point(pts[i].x, pts[i].y)
    IN  ApexLineFeature(start, finish)

\* Assemble with the arc of a point put before its line.
RECURSIVE Assemble_ArcFirst(_, _, _)
Assemble_ArcFirst(pts, arcs, i) ==
    IF i = 0 THEN <<>>
    ELSE Assemble_ArcFirst(pts, arcs, i - 1)
         \o (IF HasArc(pts, i) THEN <<arcs[i].feature>> ELSE <<>>)
         \o (IF EdgeVerdict(pts, arcs, i) = "line" THEN <<LineOf(pts, arcs, i)>> ELSE <<>>)

\* Pass 3: for each point, its surviving line and then its arc.
RECURSIVE Assemble(_, _, _)
Assemble(pts, arcs, i) ==
    IF i = 0 THEN <<>>
    ELSE Assemble(pts, arcs, i - 1)
         \o (IF EdgeVerdict(pts, arcs, i) = "line" THEN <<LineOf(pts, arcs, i)>> ELSE <<>>)
         \o (IF HasArc(pts, i) THEN <<arcs[i].feature>> ELSE <<>>)

\* The passes after the first, over the arcs of pass 1.
FeaturesOver(pts, arcs) ==
    IF ArcsFail(pts, arcs)
    THEN [ok |-> FALSE, error |-> FirstArcFailure(pts, arcs), features |-> <<>>]
    ELSE IF \E i \in 1..Len(pts) : EdgeVerdict(pts, arcs, i) = "too big"
    THEN [ok |-> FALSE, error |-> "Arcs are too big", features |-> <<>>]
    ELSE [ok |-> TRUE, error |-> "", features |-> Assemble(pts, arcs, Len(pts))]

features_get(pts) == FeaturesOver(pts, Arcs(pts))

\* ------------------------------------------ ApexPolygon.constraints_append
\* Sketcher.Constraint(kind, *args)
Constraint(kind, args) == [kind |-> kind, args |-> args]

\* ArcConstraints with the successor left out of the sandwich test.
ArcConstraints_NoAfter(before, at, after, origin) ==
    IF IsArc(at)
    THEN <<Constraint("Radius", <<at.index, at.radius>>)>>
         \o (IF ~(IsArc(before) /\ IsArc(at))
             THEN <<Constraint("DistanceX", <<origin, 1, at.index, 3, at.center.x>>),
                    Constraint("DistanceY", <<origin, 1, at.index, 3, at.center.y>>)>>
             ELSE <<>>)
    ELSE <<>>

\* Radius and, unless the arc is sandwiched between two arcs, the position of
\* its center.
ArcConstraints(before, at, after, origin) ==
    IF IsArc(at)
    THEN <<Constraint("Radius", <<at.index, at.radius>>)>>
         \o (IF ~(IsArc(before) /\ IsArc(at) /\ IsArc(after))
             THEN <<Constraint("DistanceX", <<origin, 1, at.index, 3, at.center.x>>),
                    Constraint("DistanceY", <<origin, 1, at.index, 3, at.center.y>>)>>
             ELSE <<>>)
    ELSE <<>>

\* JunctionConstraints that is tangent only between two arcs.
JunctionConstraints_BothArcs(before, at, origin) ==
    IF IsArc(before) /\ IsArc(at)
    THEN <<Constraint("Tangent",
                      <<before.index, finish_key(before), at.index, start_key(at)>>)>>
    ELSE <<Constraint("Coincident",
                      <<before.index, finish_key(before), at.index, start_key(at)>>),
           Constraint("DistanceX", <<origin, 1, at.index, start_key(at), at.start.x>>),
           Constraint("DistanceY", <<origin, 1, at.index, start_key(at), at.start.y>>)>>

\* Glue the finish of before to the start of at.
JunctionConstraints(before, at, origin) ==
    IF IsArc(before) \/ IsArc(at)
    THEN <<Constraint("Tangent",
                      <<before.index, finish_key(before), at.index, start_key(at)>>)>>
    ELSE <<Constraint("Coincident",
                      <<before.index, finish_key(before), at.index, start_key(at)>>),
           Constraint("DistanceX", <<origin, 1, at.index, start_key(at), at.start.x>>),
           Constraint("DistanceY", <<origin, 1, at.index, start_key(at), at.start.y>>)>>

\* The constraints of the feature at at_index (1-based).
FeatureConstraints(fs, at_index, origin) ==
    LET n == Len(fs)
        at == fs[at_index]
        before == fs[Before(at_index, n)]
        after == fs[After(at_index, n)]
    IN  ArcConstraints(before, at, after, origin) \o JunctionConstraints(before, at, origin)

RECURSIVE ConstraintsUpTo(_, _, _)
ConstraintsUpTo(fs, i, origin) ==
    IF i = 0 THEN <<>>
    ELSE ConstraintsUpTo(fs, i - 1, origin) \o FeatureConstraints(fs, i, origin)

\* What one call appends, or the error it raises: origin_index unset, no
\* features, an unset feature index, or a feature that is its own predecessor.
polygon_constraints_append(fs, origin) ==
    IF origin < RootOrigin
    THEN [ok |-> FALSE, error |-> "Origin Index not set.", constraints |-> <<>>]
    ELSE IF fs = <<>>
    THEN [ok |-> FALSE, error |-> "ApexFeatures not set", constraints |-> <<>>]
    ELSE IF \E i \in 1..Len(fs) : fs[i].index < RootOrigin
    THEN [ok |-> FALSE, error |-> "index is not set", constraints |-> <<>>]
    ELSE IF Len(fs) = 1
    THEN [ok |-> FALSE, error |-> "AssertionError", constraints |-> <<>>]
    ELSE [ok |-> TRUE, error |-> "", constraints |-> ConstraintsUpTo(fs, Len(fs), origin)]

\* ------------------------------------------------------ ApexDrawing.sketch
\* IndexFrom that counts from one more than base.
IndexFrom_OneMore(fs, base) ==
    [i \in 1..Len(fs) |-> [fs[i] EXCEPT !.index = base + i]]

\* feature.index = index for the features from position base on.
IndexFrom(fs, base) ==
    [i \in 1..Len(fs) |-> [fs[i] EXCEPT !.index = base + i - 1]]

\* ------------------------------------------------------------ ApexElement
\* ApexElementKey(is_exterior, diameter, depth), a frozen dataclass.
ApexElementKey(is_exterior, diameter, depth) ==
    [is_exterior |-> is_exterior, diameter |-> diameter, depth |-> depth]

\* ApexElement.__init__: id stands for the identity of the Python object;
\* points is the loop of a polygon and the center of a circle.
ApexElement(id, kind, is_exterior, depth, diameter, pts) ==
    [id |-> id, kind |-> kind, is_exterior |-> is_exterior, depth |-> depth,
     diameter |-> diameter, key |-> ApexElementKey(is_exterior, diameter, depth),
     points |-> pts]

\* None, where an element is optional.
NoElement == ApexElement(-1, "None", FALSE, 0, 0, <<>>)

\* ApexPolygon.__init__: the error it raises, "" if none.
polygon_init_error(pts, depth) ==
    IF pts = <<>> THEN "bounding box needs at least one point."
    ELSE IF depth < 0 THEN "depth is negative"
    ELSE ""

ApexPolygon(id, pts, depth, is_exterior) ==
    ApexElement(id, "polygon", is_exterior, depth, 0, pts)

\* ApexCircle.__init__: the error it raises, "" if none.
circle_init_error(center) ==
    IF center.radius <= 0 THEN "ApexCircle has no radius" ELSE ""

\* The diameter of a circle is center.diameter, twice center.radius.
ApexCircle(id, center, depth, is_exterior) ==
    ApexElement(id, "circle", is_exterior, depth, 2 * center.radius, <<center>>)

\* ---------------------------------------------------- ApexDrawing.__init__
\* The checks of the constructor in their order: the error raised, "" if
\* none.  "exterior in elements" compares object identities.
drawing_init_error_NoDepth(es, ext) ==
    IF es = <<>> THEN "No ApexPolygon's or ApexCircle's provided."
    ELSE IF ext # NoElement /\ ~(\E i \in 1..Len(es) : es[i].id = ext.id)
    THEN "Exterior element not present in elements."
    ELSE ""

drawing_init_error(es, ext) ==
    IF es = <<>> THEN "No ApexPolygon's or ApexCircle's provided."
    ELSE IF ext # NoElement /\ ~(\E i \in 1..Len(es) : es[i].id = ext.id)
    THEN "Exterior element not present in elements."
    ELSE IF ext # NoElement /\ ext.depth <= 0
    THEN "Exterior element does not have a positive depth"
    ELSE ""

NoDrawing == [elements |-> <<>>, exterior |-> NoElement, created |-> FALSE]

ApexDrawing(es, ext) == [elements |-> es, exterior |-> ext, created |-> TRUE]

\* --------------------------------------------- ApexDrawing.plane_process
\* The order of the dataclass: is_exterior, then diameter, then depth.
KeyLess_DepthFirst(a, b) ==
    \/ ~a.is_exterior /\ b.is_exterior
    \/ a.is_exterior = b.is_exterior /\ a.depth < b.depth
    \/ a.is_exterior = b.is_exterior /\ a.depth = b.depth /\ a.diameter < b.diameter

KeyLess(a, b) ==
    \/ ~a.is_exterior /\ b.is_exterior
    \/ a.is_exterior = b.is_exterior /\ a.diameter < b.diameter
    \/ a.is_exterior = b.is_exterior /\ a.diameter = b.diameter /\ a.depth < b.depth

\* One turn of the partition loop that forgets the group it extends.
GroupInsert_Replace(dict, element) ==
    LET found == {g \in 1..Len(dict) : dict[g].key = element.key}
    IN  IF found = {}
        THEN Append(dict, [key |-> element.key, group |-> <<element>>])
        ELSE [dict EXCEPT ![CHOOSE g \in found : TRUE].group = <<element>>]

\* One turn of the partition loop: groups[key] += (element,).  The dict is
\* the sequence of its items in insertion order.
GroupInsert(dict, element) ==
    LET found == {g \in 1..Len(dict) : dict[g].key = element.key}
    IN  IF found = {}
        THEN Append(dict, [key |-> element.key, group |-> <<element>>])
        ELSE [dict EXCEPT ![CHOOSE g \in found : TRUE].group = Append(@, element)]

RECURSIVE Partition(_, _)
Partition(es, n) ==
    IF n = 0 THEN <<>> ELSE GroupInsert(Partition(es, n - 1), es[n])

\* SortedReverse whose order is the order of the keys in the first run and
\* the reverse of it in the second.
SortedReverse_PerRun(dict) ==
    [i \in 1..Len(dict) |->
        dict[CHOOSE g \in 1..Len(dict) :
                 Cardinality({h \in 1..Len(dict) :
                                  KeyLess(dict[g].key, dict[h].key)})
                     = IF run = 1 THEN i - 1 ELSE Len(dict) - i]]

\* sorted(groups.keys(), reverse=True), each key with its group.
SortedReverse(dict) ==
    [i \in 1..Len(dict) |->
        dict[CHOOSE g \in 1..Len(dict) :
                 Cardinality({h \in 1..Len(dict) :
                                  KeyLess(dict[g].key, dict[h].key)}) = i - 1]]

\* The checks of an exterior group: the error raised, "" if none.
exterior_check_AnyLength(key, group) ==
    IF ~key.is_exterior THEN ""
    ELSE IF group[1].depth <= 0 THEN "Exterior depth '{exterior.name}' is not positive."
    ELSE ""

exterior_check(key, group) ==
    IF ~key.is_exterior THEN ""
    ELSE IF Len(group) # 1 THEN "Exterior should be all by itself"
    ELSE IF group[1].depth <= 0 THEN "Exterior depth '{exterior.name}' is not positive."
    ELSE ""

\* The Part Design operation of a group.
Operation(key, group) ==
    [kind |-> IF key.is_exterior THEN "Pad"
              ELSE IF group[1].kind = "circle" THEN "Hole"
              ELSE "Pocket",
     depth |-> key.depth, diameter |-> key.diameter,
     group |-> [i \in 1..Len(group) |-> group[i].id]]

\* ------------------------------------------------------ ApexDrawing.sketch
Min(S) == CHOOSE m \in S : \A n \in S : m <= n

\* The x and y of element.box.TSW: the lowest corner of the loop of a
\* polygon, of the square around a circle.
BoxLower(element) ==
    LET pts == element.points
        r == IF element.kind = "circle" THEN pts[1].radius ELSE 0
    IN  Point(Min({pts[i].x : i \in 1..Len(pts)}) - r,
              Min({pts[i].y : i \in 1..Len(pts)}) - r)

\* The x and y of drawing.box.TSW.
TSW(es) ==
    Point(Min({BoxLower(es[i]).x : i \in 1..Len(es)}),
          Min({BoxLower(es[i]).y : i \in 1..Len(es)}))

\* element.reorient(Placement(Vector(-tsw.x, -tsw.y, 0), Rotation()))
Quadrant1(element, tsw) ==
    LET pts == element.points
    IN  [element EXCEPT !.points =
            [i \in 1..Len(pts) |-> [pts[i] EXCEPT !.x = @ - tsw.x, !.y = @ - tsw.y]]]

\* element.features_get(drawing)
element_features_get(element) ==
    IF element.kind = "circle"
    THEN LET center == element.points[1]
         IN  [ok |-> TRUE, error |-> "",
              features |-> <<ApexCircleFeature(Point(center.x, center.y),
                                               center.radius)>>]
    ELSE features_get(element.points)

\* ApexCircle.constraints_append
circle_constraints_append(fs, origin) ==
    LET circle == fs[1]
    IN  [ok |-> TRUE, error |-> "",
         constraints |->
             <<Constraint("Radius", <<circle.index, circle.radius>>),
               Constraint("DistanceX", <<origin, 1, circle.index, 3, circle.center.x>>),
               Constraint("DistanceY", <<origin, 1, circle.index, 3, circle.center.y>>)>>]

\* ApexDrawing.point_constraints_append
point_constraints_append(point, origin) ==
    <<Constraint("DistanceX", <<RootOrigin, 1, origin, 1, point.x>>),
      Constraint("DistanceY", <<RootOrigin, 1, origin, 1, point.y>>)>>

\* features.extend(element.features_get(self)), unless an element before
\* this one has failed already.
FeaturesExtend(head, got) ==
    IF ~head.ok THEN head
    ELSE IF ~got.ok THEN [head EXCEPT !.ok = FALSE, !.error = got.error]
    ELSE [head EXCEPT !.features = @ \o got.features,
                      !.chains = Append(@, got.features)]

\* The features of the lower-left point and of the first n elements:
\* chains[i] holds the features of element i.
RECURSIVE SketchFeatures(_, _, _)
SketchFeatures(es, n, lower_left) ==
    IF n = 0
    THEN [ok |-> TRUE, error |-> "", features |-> <<ApexPointFeature(lower_left)>>,
          chains |-> <<>>]
    ELSE FeaturesExtend(SketchFeatures(es, n - 1, lower_left),
                        element_features_get(es[n]))

\* ChainBase that counts the first chain from the lower-left point's index.
RECURSIVE ChainBase_FromZero(_, _)
ChainBase_FromZero(chains, n) ==
    IF n = 1 THEN 0 ELSE ChainBase_FromZero(chains, n - 1) + Len(chains[n - 1])

\* The index of the first feature of element n: the features are numbered in
\* the order of the list, the lower-left point first.
RECURSIVE ChainBase(_, _)
ChainBase(chains, n) ==
    IF n = 1 THEN 1 ELSE ChainBase(chains, n - 1) + Len(chains[n - 1])

\* The features of element n once every feature has its index.
ChainOf(chains, n) ==
    IndexFrom(chains[n], ChainBase(chains, n))

\* element.constraints_append(self, constraints)
element_constraints_append(element, chain, origin) ==
    IF element.kind = "circle"
    THEN circle_constraints_append(chain, origin)
    ELSE polygon_constraints_append(chain, origin)

\* The constraints list after one more element, unless an element before
\* this one has failed already.
ConstraintsExtend(head, got) ==
    IF ~head.ok THEN head
    ELSE IF ~got.ok THEN [head EXCEPT !.ok = FALSE, !.error = got.error]
    ELSE [head EXCEPT !.constraints = @ \o got.constraints]

\* The constraints of the lower-left point and of the first n elements.
RECURSIVE SketchConstraints(_, _, _, _, _)
SketchConstraints(es, chains, n, lower_left, origin) ==
    IF n = 0
    THEN [ok |-> TRUE, error |-> "",
          constraints |-> point_constraints_append(lower_left, origin)]
    ELSE ConstraintsExtend(
             SketchConstraints(es, chains, n - 1, lower_left, origin),
             element_constraints_append(es[n], ChainOf(chains, n), origin))

\* The end of sketch(): sketcher.addGeometry, then the constraints are built
\* and sketcher.addConstraint is reached if none of them fails.
SketchLoad(final_features, built) ==
    IF ~built.ok
    THEN [ok |-> FALSE, error |-> built.error, geometry |-> final_features,
          constraints |-> <<>>]
    ELSE [ok |-> TRUE, error |-> "", geometry |-> final_features,
          constraints |-> built.constraints]

\* sketch() from the features on: every feature gets its index, and
\* origin_index is the index of the first one, the lower-left point.
SketchIndexed(es, lower_left, got, final_features) ==
    IF ~got.ok
    THEN [ok |-> FALSE, error |-> got.error, geometry |-> <<>>, constraints |-> <<>>]
    ELSE SketchLoad(final_features,
                    SketchConstraints(es, got.chains, Len(es), lower_left,
                                      final_features[1].index))

\* sketch() from the quadrant 1 drawing on.
SketchQuadrant1(es, lower_left, got) ==
    SketchIndexed(es, lower_left, got, IndexFrom(got.features, 0))

\* The elements moved by -tsw.
Quadrant1Elements(es, tsw) ==
    [i \in 1..Len(es) |-> Quadrant1(es[i], tsw)]

\* sketch() once tsw is known.
SketchFrom(es, tsw) ==
    SketchQuadrant1(es, tsw, SketchFeatures(es, Len(es), tsw))

\* drawing.sketch(sketch) of a drawing whose normal is +Z: what the sketch
\* object holds afterwards, and the error raised, "" if none.
sketch(es) ==
    SketchFrom(Quadrant1Elements(es, TSW(es)), TSW(es))

\* ------------------------------------------------ ApexDrawing.origin_index
\* The getter with the bound of its check at the initial value.
origin_index_get_Initial(held) ==
    IF held < UnsetIndex
    THEN [ok |-> FALSE, error |-> "Origin Index not set.", value |-> held]
    ELSE [ok |-> TRUE, error |-> "", value |-> held]

\* The getter: raises ValueError when self._origin_index < -1.
origin_index_get(held) ==
    IF held < RootOrigin
    THEN [ok |-> FALSE, error |-> "Origin Index not set.", value |-> held]
    ELSE [ok |-> TRUE, error |-> "", value |-> held]

\* ----------------------------------------------------- ApexElement.reorient
\* A name is a sequence of pieces, "" is <<>>; a suffix is a name or None.
NoSuffix == [none |-> TRUE, text |-> <<>>]
Suffix(text) == [none |-> FALSE, text |-> text]

\* Python's "if suffix": None and "" are both false.
Truthy(suffix) == ~suffix.none /\ suffix.text # <<>>

\* What reorient() reads of an element: its class, its name and, of a
\* circle, the name of its center.
Named(kind, name, center_name) == [kind |-> kind, name |-> name, center_name |-> center_name]
NoNamed == Named("None", <<>>, <<>>)

\* ApexPolygon(points, name=name)
NamedPolygon(name) == Named("Polygon", name, <<>>)

\* ApexCircle(center, name=name): name = name if name else center.name
NamedCircle(name, center_name) ==
    Named("Circle", IF name # <<>> THEN name ELSE center_name, center_name)

\* name = f"{self._name}{suffix}" if suffix else ""
reorient_name(name, suffix) == IF Truthy(suffix) THEN name \o suffix.text ELSE <<>>

\* REORIENT_CHECKS: ApexCheck("suffix", (str,))
reorient_check(suffix) == IF suffix.none THEN "ValueError" ELSE ""

\* The names center.reorient(placement, suffix) may give the new center.
point_reorient_names(name, suffix) ==
    {name, <<>>} \cup (IF suffix.none THEN {} ELSE {name \o suffix.text})

polygon_reorient(polygon, suffix) == NamedPolygon(reorient_name(polygon.name, suffix))

circle_reorient(circle, suffix, center_name) ==
    NamedCircle(reorient_name(circle.name, suffix), center_name)

\* ----------------------------------------------------- ApexDrawing.reorient
\* A Vector; a Rotation by quarter turns about +Z; Placement(base, rotation).
Vector(x, y, z) == [x |-> x, y |-> y, z |-> z]

RECURSIVE Rotate(_, _)
Rotate(v, turns) ==
    IF turns = 0 THEN v ELSE Rotate(Vector(-v.y, v.x, v.z), turns - 1)

Placement(base, turns) == [Base |-> base, Rotation |-> turns]

\* placement * vector
PlacementMul(placement, v) ==
    LET turned == Rotate(v, placement.Rotation)
    IN  Vector(turned.x + placement.Base.x, turned.y + placement.Base.y,
               turned.z + placement.Base.z)

\* apex_point.reorient(placement): the point moves in the plane and keeps
\* its radius.
point_reorient(point, placement) ==
    LET moved == PlacementMul(placement, Vector(point.x, point.y, 0))
    IN  [point EXCEPT !.x = moved.x, !.y = moved.y]

\* element.reorient(placement, suffix): a new element, id its identity.
element_reorient(element, placement, id) ==
    LET moved == [i \in 1..Len(element.points) |->
                     point_reorient(element.points[i], placement)]
    IN  IF element.kind = "circle"
        THEN ApexCircle(id, moved[1], element.depth, element.is_exterior)
        ELSE ApexPolygon(id, moved, element.depth, element.is_exterior)

\* exterior_index = self._elements.index(exterior), -1 without an exterior.
exterior_index(es, ext) ==
    IF ext = NoElement THEN -1
    ELSE (CHOOSE i \in 1..Len(es) :
              /\ es[i].id = ext.id
              /\ \A j \in 1..(i - 1) : es[j].id # ext.id) - 1

\* The exterior of the result, taken from the drawing that is reoriented.
reoriented_exterior_Same(es, ext, reoriented_elements) == ext

\* reoriented_elements[exterior_index] if exterior_index >= 0 else None
reoriented_exterior(es, ext, reoriented_elements) ==
    IF exterior_index(es, ext) >= 0
    THEN reoriented_elements[exterior_index(es, ext) + 1]
    ELSE NoElement

\* What reorient() returns: the new drawing with its contact and its normal.
Placed(made, contact, normal) == [drawing |-> made, contact |-> contact, normal |-> normal]

drawing_reorient(d, contact, normal, placement) ==
    LET reoriented_elements ==
            [i \in 1..Len(d.elements) |->
                element_reorient(d.elements[i], placement, Len(d.elements) + i)]
    IN  Placed(ApexDrawing(reoriented_elements,
                           reoriented_exterior(d.elements, d.exterior, reoriented_elements)),
               PlacementMul(placement, contact),
               Rotate(normal, placement.Rotation))

\* No call yet.
NoPlaced ==
    [contact |-> Vector(0, 0, 0), normal |-> Vector(0, 0, 0),
     placement |-> Placement(Vector(0, 0, 0), 0), called |-> FALSE,
     result |-> Placed(NoDrawing, Vector(0, 0, 0), Vector(0, 0, 0))]

\* ------------------------------------------------------------- FabCQtoFC
\* None, for a field that holds an object.  An object that a node creates
\* stands as the position of the node in the walk.
None == 0
NoNormal == <<>>

\* FabCQtoFC.__post_init__: the fields the walk reads and writes.
NoConverter ==
    [ProjectDocument |-> None, CurrentPart |-> None, CurrentLink |-> None,
     CurrentJob |-> None, CurrentGroup |-> None, CurrentNormal |-> NoNormal]

Done(c) == [ok |-> TRUE, error |-> "", converter |-> c]
Raised(c, message) == [ok |-> FALSE, error |-> message, converter |-> c]

allowed_kinds ==
    {"Project", "Document", "Assembly", "Solid", "Mount", "Extrude", "Pocket", "Drill"}

\* process_document: the new document becomes ProjectDocument only inside
\* "if indent:".
process_document(c, ind, k) ==
    Done(IF ind # "" THEN [c EXCEPT !.ProjectDocument = k] ELSE c)

\* process_assembly: a group inside the current group, or inside the project
\* document when there is none.
process_assembly(c, k) ==
    IF c.CurrentGroup # None THEN Done([c EXCEPT !.CurrentGroup = k])
    ELSE IF c.ProjectDocument = None THEN Raised(c, "AttributeError")
    ELSE Done([c EXCEPT !.CurrentGroup = k])

\* process_solid that leaves the current job and normal as they are.
process_solid_KeepsJob(c, k) ==
    IF c.ProjectDocument = None \/ c.CurrentGroup = None THEN Raised(c, "AttributeError")
    ELSE Done([c EXCEPT !.CurrentPart = k, !.CurrentLink = k])

\* process_solid: the STEP file is imported into the project document and
\* linked into the current group; the part is current, the job and the
\* normal are cleared.
process_solid(c, k) ==
    IF c.ProjectDocument = None \/ c.CurrentGroup = None THEN Raised(c, "AttributeError")
    ELSE Done([c EXCEPT !.CurrentPart = k, !.CurrentLink = k,
                        !.CurrentJob = None, !.CurrentNormal = NoNormal])

\* process_mount: a job for the current part; job and normal become current.
process_mount(c, k, normal) ==
    IF c.CurrentPart = None THEN Raised(c, "AttributeError")
    ELSE Done([c EXCEPT !.CurrentJob = k, !.CurrentNormal = normal])

\* The Extrude branch of node_process: assert job is not None.
extrude(c) ==
    IF c.CurrentJob = None THEN Raised(c, "No job present") ELSE Done(c)

\* The message of both assertions on the kind of a node.
KindError(kind) == kind \o " not one of allowed_kinds"

\* The dispatch of node_process on the kind: if / elif ... / else.
dispatch(c, ind, node, k) ==
    CASE node.Kind = "Project" -> Done(c)
      [] node.Kind = "Document" -> process_document(c, ind, k)
      [] node.Kind = "Assembly" -> process_assembly(c, k)
      [] node.Kind = "Solid" -> process_solid(c, k)
      [] node.Kind = "Mount" -> process_mount(c, k, node.Normal)
      [] node.Kind = "Extrude" -> extrude(c)
      [] node.Kind = "Pocket" -> Done(c)
      [] OTHER -> Raised(c, KindError(node.Kind))

\* node_process of node number k of the walk, a dictionary with every key
\* its kind needs: the kind is checked, then dispatched on.
node_process(c, ind, node, k) ==
    IF node.Kind \notin allowed_kinds THEN Raised(c, KindError(node.Kind))
    ELSE dispatch(c, ind, node, k)

\* ------------------------------------------------------- the input loops
\* Edges of 1, 3 and 4 ticks: the legs of two arcs can fall short of an edge,
\* meet on it within the tolerance, or overshoot it.
Coordinates == {0, 1, 4}
Vertices == [x : Coordinates, y : Coordinates, radius : 0..MaxRadius]

Horizontal(p, q) == p.y = q.y /\ p.x # q.x
Vertical(p, q) == p.x = q.x /\ p.y # q.y

\* A loop may start at any of its points: the first point is taken on the
\* lower side, at one of the two lowest x, and every edge length still occurs.
FirstVertices == {v \in Vertices : v.y = 0 /\ v.x <= 1}

\* The points that may follow a path: the next edge is parallel to an axis
\* and turns by a right angle.
NextVertices(path) ==
    LET n == Len(path)
    IN  {v \in Vertices :
            IF n = 0 THEN v \in FirstVertices
            ELSE IF n = 1 THEN Horizontal(path[n], v) \/ Vertical(path[n], v)
            ELSE \/ Horizontal(path[n - 1], path[n]) /\ Vertical(path[n], v)
                 \/ Vertical(path[n - 1], path[n]) /\ Horizontal(path[n], v)}

\* Both edges at a rounded point are parallel to an axis.
Rectilinear(pts) ==
    \A i \in 1..Len(pts) :
        HasArc(pts, i) =>
            /\ AxisParallel(PointSub(pts[Before(i, Len(pts))], pts[i]))
            /\ AxisParallel(PointSub(pts[After(i, Len(pts))], pts[i]))

\* ------------------------------------------- a drawing, from its elements
Square(low, side, radius) ==
    <<[x |-> low, y |-> low, radius |-> radius],
      [x |-> low + side, y |-> low, radius |-> radius],
      [x |-> low + side, y |-> low + side, radius |-> radius],
      [x |-> low, y |-> low + side, radius |-> radius]>>

\* What the caller builds elements from: a square with sharp corners, a
\* single point, and no points at all; two circles and a center without a
\* radius.
PolygonShapes == {Square(1, 2, 0), <<[x |-> 1, y |-> 1, radius |-> 0]>>, <<>>}
Centers == {[x |-> 1, y |-> 1, radius |-> 1], [x |-> 3, y |-> 3, radius |-> 2],
            [x |-> 0, y |-> 0, radius |-> 0]}
Depths == {0, 1, 2}

\* Elements that are never put into the tuple of elements.
Outsiders == {ApexPolygon(0, Square(1, 2, 0), depth, TRUE) : depth \in {0, 1}}

\* Nothing is constructed yet.
\* What a run of plane_process leaves behind: the groups in the order of the
\* loop, the sketches with their indexed features and their constraints, the
\* operations, and how it ended.
Ran(gs, ss, os, ended, message) ==
    [groups |-> gs, sketches |-> ss, operations |-> os, pc |-> ended, error |-> message]

NoRun == Ran(<<>>, <<>>, <<>>, "", "")

Blank ==
    /\ points = <<>>
    /\ features = <<>>
    /\ constraints = <<>>
    /\ origin_index = UnsetIndex
    /\ elements = <<>>
    /\ exterior = NoElement
    /\ drawing = NoDrawing
    /\ groups = <<>>
    /\ sketches = <<>>
    /\ operations = <<>>
    /\ feature_index = UnsetIndex
    /\ log = <<>>
    /\ reoriented = NoNamed
    /\ converter = NoConverter
    /\ indent = ""
    /\ visited = <<>>
    /\ solved = NoSolved
    /\ placed = NoPlaced
    /\ run = 1
    /\ first = NoRun
    /\ featured = NoElement
    /\ kept = <<>>
    /\ returned = <<>>
    /\ constructed = 0
    /\ reorient_log = <<>>
    /\ error = ""

Init == Blank /\ pc = "elements"

\* The caller constructs an ApexPolygon and adds it to the tuple.
PolygonAppend ==
    /\ pc = "elements"
    /\ Len(elements) < MaxElements
    /\ \E pts \in PolygonShapes, depth \in Depths, is_exterior \in BOOLEAN :
           /\ polygon_init_error(pts, depth) = ""
           /\ elements' = Append(elements,
                  ApexPolygon(Len(elements) + 1, pts, depth, is_exterior))
    /\ UNCHANGED <<exterior, drawing, groups, sketches, operations, pc, error>>
    /\ UNCHANGED <<polygonVars, indexVars, otherVars>>

\* The caller constructs an ApexCircle and adds it to the tuple.
CircleAppend ==
    /\ pc = "elements"
    /\ Len(elements) < MaxElements
    /\ \E center \in Centers, depth \in Depths, is_exterior \in BOOLEAN :
           /\ circle_init_error(center) = ""
           /\ elements' = Append(elements,
                  ApexCircle(Len(elements) + 1, center, depth, is_exterior))
    /\ UNCHANGED <<exterior, drawing, groups, sketches, operations, pc, error>>
    /\ UNCHANGED <<polygonVars, indexVars, otherVars>>

\* ApexDrawing(contact, normal, elements, exterior): exterior is None, one of
\* the elements, or an element that is not among them.
DrawingInit ==
    /\ pc = "elements"
    /\ \E ext \in {NoElement} \cup {elements[i] : i \in 1..Len(elements)} \cup Outsiders :
           LET message == drawing_init_error(elements, ext)
           IN  /\ exterior' = ext
               /\ error' = message
               /\ pc' = IF message = "" THEN "drawing" ELSE "failed"
               /\ drawing' = IF message = "" THEN ApexDrawing(elements, ext)
                             ELSE NoDrawing
    /\ UNCHANGED <<elements, groups, sketches, operations>>
    /\ UNCHANGED <<polygonVars, indexVars, otherVars>>

\* plane_process: the elements are partitioned into groups by key and the
\* keys are sorted for the loop over the groups.
PlaneProcessGroups ==
    /\ pc = "drawing"
    /\ groups' = SortedReverse(Partition(drawing.elements, Len(drawing.elements)))
    /\ pc' = "groups"
    /\ UNCHANGED <<elements, exterior, drawing, sketches, operations, error>>
    /\ UNCHANGED <<polygonVars, indexVars, otherVars>>

\* plane_process: one turn of the loop over the groups.  The exterior checks
\* come first; then the drawing of the group, its sketch object, the sketch
\* of the drawing, and the operation.
GroupProcess ==
    /\ pc = "groups"
    /\ LET index == Len(operations) + 1
           key == groups[index].key
           group == groups[index].group
           checked == exterior_check(key, group)
           inited == drawing_init_error(group, IF key.is_exterior THEN group[1]
                                                ELSE NoElement)
       IN  IF checked # "" \/ inited # ""
           THEN /\ pc' = "failed"
                /\ error' = IF checked # "" THEN checked ELSE inited
                /\ UNCHANGED <<sketches, operations>>
           ELSE \E sketched \in {sketch(group)} :
                /\ sketches' = Append(sketches, [geometry |-> sketched.geometry,
                                                 constraints |-> sketched.constraints])
                /\ error' = sketched.error
                /\ operations' = IF sketched.ok
                                 THEN Append(operations, Operation(key, group))
                                 ELSE operations
                /\ pc' = IF ~sketched.ok THEN "failed"
                         ELSE IF index = Len(groups) THEN "done"
                         ELSE "groups"
    /\ UNCHANGED <<elements, exterior, drawing, groups>>
    /\ UNCHANGED <<polygonVars, indexVars, otherVars>>

Next == PolygonAppend \/ CircleAppend \/ DrawingInit \/ PlaneProcessGroups \/ GroupProcess

Spec == Init /\ [][Next]_vars

\* --------------------------------------------- one polygon, step by step
\* The caller has no point yet.
InitPolygon == Blank /\ pc = "points"

\* The caller adds a point to the tuple it will pass to ApexPolygon.
AddPoint ==
    /\ pc = "points"
    /\ Len(points) < MaxPoints
    /\ \E v \in NextVertices(points) : points' = Append(points, v)
    /\ UNCHANGED <<features, constraints, origin_index, pc, error>>
    /\ UNCHANGED <<drawingVars, indexVars, otherVars>>

\* ApexPolygon(points): no features yet.
PolygonInit ==
    /\ pc = "points"
    /\ Rectilinear(points)
    /\ pc' = IF points = <<>> THEN "failed" ELSE "polygon"
    /\ error' = IF points = <<>> THEN "bounding box needs at least one point." ELSE ""
    /\ UNCHANGED <<points, features, constraints, origin_index>>
    /\ UNCHANGED <<drawingVars, indexVars, otherVars>>

\* polygon.features_get(drawing)
FeaturesGet ==
    /\ pc = "polygon"
    /\ \E got \in {features_get(points)} :
           /\ features' = got.features
           /\ pc' = IF got.ok THEN "features" ELSE "failed"
           /\ error' = got.error
    /\ UNCHANGED <<points, constraints, origin_index>>
    /\ UNCHANGED <<drawingVars, indexVars, otherVars>>

\* sketch(): the lower-left point feature gets index 0, the polygon's
\* features the indices after it, and origin_index is the lower-left index.
IndexSet ==
    /\ pc = "features"
    /\ features' = IndexFrom(features, 1)
    /\ origin_index' = 0
    /\ pc' = "indexed"
    /\ UNCHANGED <<points, constraints, error>>
    /\ UNCHANGED <<drawingVars, indexVars, otherVars>>

\* polygon.constraints_append(drawing, constraints)
ConstraintsAppend ==
    /\ pc = "indexed"
    /\ \E got \in {polygon_constraints_append(features, origin_index)} :
           /\ constraints' = constraints \o got.constraints
           /\ pc' = IF got.ok THEN "constrained" ELSE "failed"
           /\ error' = got.error
    /\ UNCHANGED <<points, features, origin_index>>
    /\ UNCHANGED <<drawingVars, indexVars, otherVars>>

NextPolygon == AddPoint \/ PolygonInit \/ FeaturesGet \/ IndexSet \/ ConstraintsAppend

SpecPolygon == InitPolygon /\ [][NextPolygon]_vars

\* ------------------------------------------------------ ApexFeature.index
\* The getter: assert self._index >= -1, "index is not set".
index_get(stored) ==
    IF stored >= -1 THEN [ok |-> TRUE, error |-> "", value |-> stored]
    ELSE [ok |-> FALSE, error |-> "index is not set", value |-> stored]

\* The setter without its first check.
index_set_Again(stored, value) ==
    IF value < -1
    THEN [ok |-> FALSE, error |-> "index must >= -1", stored |-> stored]
    ELSE [ok |-> TRUE, error |-> "", stored |-> value]

\* The setter: what it raises and what self._index is afterwards.
index_set(stored, value) ==
    IF stored >= -1
    THEN [ok |-> FALSE, error |-> "index is already set", stored |-> stored]
    ELSE IF value < -1
    THEN [ok |-> FALSE, error |-> "index must >= -1", stored |-> stored]
    ELSE [ok |-> TRUE, error |-> "", stored |-> value]

\* The values a caller writes.
IndexValues == {-2, -1, 0, 1}

\* ApexFeature.__init__: the index is unset.
InitIndex == Blank /\ pc = "feature"

\* feature.index
IndexRead ==
    /\ pc = "feature"
    /\ Len(log) < MaxOps
    /\ LET got == index_get(feature_index)
       IN  /\ log' = Append(log, [op |-> "get", value |-> got.value, ok |-> got.ok,
                                  stored |-> feature_index])
           /\ error' = got.error
    /\ UNCHANGED <<feature_index, pc>>
    /\ UNCHANGED <<polygonVars, drawingVars, otherVars>>

\* feature.index = value
IndexWrite ==
    /\ pc = "feature"
    /\ Len(log) < MaxOps
    /\ \E value \in IndexValues :
           LET got == index_set(feature_index, value)
           IN  /\ feature_index' = got.stored
               /\ log' = Append(log, [op |-> "set", value |-> value, ok |-> got.ok,
                                      stored |-> got.stored])
               /\ error' = got.error
    /\ UNCHANGED pc
    /\ UNCHANGED <<polygonVars, drawingVars, otherVars>>

NextIndex == IndexRead \/ IndexWrite

SpecIndex == InitIndex /\ [][NextIndex]_vars

\* ------------------------------------------- one element, reoriented
MaxReorients == 2

Names == {<<>>, <<"a">>, <<"b">>}
Suffixes == {NoSuffix, Suffix(<<>>), Suffix(<<".+z">>), Suffix(<<".q1">>)}

InitReorient == Blank /\ pc = "element"

\* ApexPolygon(points, name=name)
PolygonNamed ==
    /\ pc = "element"
    /\ \E name \in Names : reoriented' = NamedPolygon(name)
    /\ pc' = "reorient"
    /\ UNCHANGED <<reorient_log, error>>
    /\ UNCHANGED <<polygonVars, drawingVars, indexVars, chainVars, rerunVars, placeVars, arcVars, walkVars>>

\* ApexCircle(center, name=name)
CircleNamed ==
    /\ pc = "element"
    /\ \E name \in Names, center_name \in Names :
           reoriented' = NamedCircle(name, center_name)
    /\ pc' = "reorient"
    /\ UNCHANGED <<reorient_log, error>>
    /\ UNCHANGED <<polygonVars, drawingVars, indexVars, chainVars, rerunVars, placeVars, arcVars, walkVars>>

Reoriented(suffix, before, after) == [suffix |-> suffix, before |-> before, after |-> after]

\* polygon.reorient(placement, suffix)
PolygonReorient ==
    /\ pc = "reorient"
    /\ reoriented.kind = "Polygon"
    /\ Len(reorient_log) < MaxReorients
    /\ \E suffix \in Suffixes :
           IF reorient_check(suffix) # ""
           THEN /\ error' = reorient_check(suffix)
                /\ pc' = "failed"
                /\ UNCHANGED <<reoriented, reorient_log>>
           ELSE /\ reoriented' = polygon_reorient(reoriented, suffix)
                /\ reorient_log' = Append(reorient_log,
                                          Reoriented(suffix, reoriented, reoriented'))
                /\ UNCHANGED <<pc, error>>
    /\ UNCHANGED <<polygonVars, drawingVars, indexVars, chainVars, rerunVars, placeVars, arcVars, walkVars>>

\* circle.reorient(placement, suffix)
CircleReorient ==
    /\ pc = "reorient"
    /\ reoriented.kind = "Circle"
    /\ Len(reorient_log) < MaxReorients
    /\ \E suffix \in Suffixes :
       \E center_name \in point_reorient_names(reoriented.center_name, suffix) :
           /\ reoriented' = circle_reorient(reoriented, suffix, center_name)
           /\ reorient_log' = Append(reorient_log,
                                     Reoriented(suffix, reoriented, reoriented'))
    /\ UNCHANGED <<pc, error>>
    /\ UNCHANGED <<polygonVars, drawingVars, indexVars, chainVars, rerunVars, placeVars, arcVars, walkVars>>

NextReorient == PolygonNamed \/ CircleNamed \/ PolygonReorient \/ CircleReorient

SpecReorient == InitReorient /\ [][NextReorient]_vars

\* ------------------------------------------- features_get, call after call
\* The feature objects that a features_get() that raises has constructed by
\* then: the arcs before the one that failed, or every arc and the lines of
\* the edges before the one whose arcs are too big.
ConstructedBefore(pts, arcs) ==
    IF ArcsFail(pts, arcs)
    THEN LET i == CHOOSE j \in 1..Len(pts) :
                      /\ HasArc(pts, j) /\ ~arcs[j].ok
                      /\ \A k \in 1..(j - 1) : ~(HasArc(pts, k) /\ ~arcs[k].ok)
         IN  Cardinality({k \in 1..(i - 1) : HasArc(pts, k)})
    ELSE LET i == CHOOSE j \in 1..Len(pts) :
                      /\ EdgeVerdict(pts, arcs, j) = "too big"
                      /\ \A k \in 1..(j - 1) : EdgeVerdict(pts, arcs, k) # "too big"
         IN  Cardinality({k \in 1..Len(pts) : HasArc(pts, k)})
             + Cardinality({k \in 1..(i - 1) : EdgeVerdict(pts, arcs, k) = "line"})

\* The identities of n objects constructed after the first made of them.
Fresh(made, n) == [k \in 1..n |-> made + k]

Call(got, made) == [features |-> got, constructed |-> made]

\* ApexPolygon.features_get: the chain is built anew and kept.
polygon_features_get(pts, arcs, made) ==
    LET got == FeaturesOver(pts, arcs)
    IN  IF got.ok
        THEN [ok |-> TRUE, error |-> "", made |-> Len(got.features),
              features |-> Fresh(made, Len(got.features))]
        ELSE [ok |-> FALSE, error |-> got.error, made |-> ConstructedBefore(pts, arcs),
              features |-> <<>>]

\* ApexCircle.features_get: the circle feature is built when none is kept.
circle_features_get(last, made) ==
    IF last = <<>>
    THEN [ok |-> TRUE, error |-> "", made |-> 1, features |-> Fresh(made, 1)]
    ELSE [ok |-> TRUE, error |-> "", made |-> 0, features |-> last]

MaxCalls == 3

ChainShapes ==
    {Square(low, side, radius) : low \in {0, 1}, side \in {1, 3, 4}, radius \in 0..MaxRadius}
    \cup {<<[x |-> 1, y |-> 1, radius |-> radius]>> : radius \in 0..MaxRadius}

InitChain == Blank /\ pc = "chain"

\* ApexPolygon(points)
ChainPolygon ==
    /\ pc = "chain"
    /\ featured = NoElement
    /\ \E pts \in ChainShapes, depth \in Depths :
           featured' = ApexPolygon(0, pts, depth, FALSE)
    /\ UNCHANGED <<kept, returned, constructed, pc, error>>
    /\ UNCHANGED <<polygonVars, drawingVars, indexVars, reorientVars, rerunVars, placeVars, arcVars, walkVars>>

\* ApexCircle(center)
ChainCircle ==
    /\ pc = "chain"
    /\ featured = NoElement
    /\ \E center \in Centers, depth \in Depths :
           IF circle_init_error(center) # ""
           THEN /\ error' = circle_init_error(center)
                /\ pc' = "failed"
                /\ UNCHANGED featured
           ELSE /\ featured' = ApexCircle(0, center, depth, FALSE)
                /\ UNCHANGED <<pc, error>>
    /\ UNCHANGED <<kept, returned, constructed>>
    /\ UNCHANGED <<polygonVars, drawingVars, indexVars, reorientVars, rerunVars, placeVars, arcVars, walkVars>>

ChainCalled(got) ==
    /\ constructed' = constructed + got.made
    /\ kept' = IF got.ok THEN got.features ELSE kept
    /\ returned' = IF got.ok THEN Append(returned, Call(got.features, got.made)) ELSE returned
    /\ error' = got.error
    /\ pc' = IF got.ok THEN pc ELSE "failed"

\* polygon.features_get(drawing)
PolygonFeaturesGet ==
    /\ pc = "chain"
    /\ featured.kind = "polygon"
    /\ Len(returned) < MaxCalls
    /\ \E arcs \in {Arcs(featured.points)} :
       \E got \in {polygon_features_get(featured.points, arcs, constructed)} :
           ChainCalled(got)
    /\ UNCHANGED featured
    /\ UNCHANGED <<polygonVars, drawingVars, indexVars, reorientVars, rerunVars, placeVars, arcVars, walkVars>>

\* circle.features_get(drawing)
CircleFeaturesGet ==
    /\ pc = "chain"
    /\ featured.kind = "circle"
    /\ Len(returned) < MaxCalls
    /\ \E got \in {circle_features_get(kept, constructed)} : ChainCalled(got)
    /\ UNCHANGED featured
    /\ UNCHANGED <<polygonVars, drawingVars, indexVars, reorientVars, rerunVars, placeVars, arcVars, walkVars>>

NextChain == ChainPolygon \/ ChainCircle \/ PolygonFeaturesGet \/ CircleFeaturesGet

SpecChain == InitChain /\ [][NextChain]_vars

\* ------------------------------------------- one sketch(), step by step
\* The loops that the elements of a sketched drawing are made of: a square
\* with sharp corners, one with rounded corners, one that reaches below the
\* axes, a loop with one corner whose radius is longer than its edge, a
\* single point, and a square whose arcs are too big.
SketchShapes ==
    {Square(1, 2, 0), Square(0, 4, 1), Square(-1, 4, 0),
     <<[x |-> 0, y |-> 0, radius |-> 0], [x |-> 1, y |-> 0, radius |-> 2],
       [x |-> 1, y |-> 4, radius |-> 0], [x |-> 0, y |-> 4, radius |-> 0]>>,
     <<[x |-> 1, y |-> 1, radius |-> 0]>>, Square(0, 1, 2)}

SketchCenters == {center \in Centers : circle_init_error(center) = ""}

InitSketch == Blank /\ pc = "sketch.elements"

\* The caller adds a polygon or a circle to the elements of the drawing.
SketchElement ==
    /\ pc = "sketch.elements"
    /\ Len(elements) < MaxElements
    /\ \/ \E pts \in SketchShapes :
              elements' = Append(elements, ApexPolygon(Len(elements) + 1, pts, 1, FALSE))
       \/ \E center \in SketchCenters :
              elements' = Append(elements, ApexCircle(Len(elements) + 1, center, 1, FALSE))
    /\ UNCHANGED <<exterior, drawing, groups, sketches, operations, pc, error>>
    /\ UNCHANGED <<polygonVars, indexVars, otherVars>>

\* ApexDrawing(contact, normal, elements, None)
SketchDrawing ==
    /\ pc = "sketch.elements"
    /\ IF drawing_init_error(elements, NoElement) # ""
       THEN /\ error' = drawing_init_error(elements, NoElement)
            /\ pc' = "failed"
            /\ UNCHANGED drawing
       ELSE /\ drawing' = ApexDrawing(elements, NoElement)
            /\ pc' = "sketch.drawing"
            /\ UNCHANGED error
    /\ UNCHANGED <<elements, exterior, groups, sketches, operations>>
    /\ UNCHANGED <<polygonVars, indexVars, otherVars>>

\* The elements of quadrant1_drawing.
SketchElements == Quadrant1Elements(drawing.elements, TSW(drawing.elements))

\* sketch() up to the list of features: the lower-left point, then the
\* features of each element of the quadrant 1 drawing.
SketchExtract ==
    /\ pc = "sketch.drawing"
    /\ \E got \in {SketchFeatures(SketchElements, Len(drawing.elements),
                                  TSW(drawing.elements))} :
           /\ features' = IF got.ok THEN got.features ELSE features
           /\ error' = got.error
           /\ pc' = IF got.ok THEN "sketch.features" ELSE "failed"
    /\ UNCHANGED <<points, constraints, origin_index>>
    /\ UNCHANGED <<drawingVars, indexVars, otherVars>>

\* feature.index = index for each feature, then self._origin_index.
SketchIndex ==
    /\ pc = "sketch.features"
    /\ \E final_features \in {IndexFrom(features, 0)} :
           /\ features' = final_features
           /\ origin_index' = final_features[1].index
    /\ pc' = "sketch.indexed"
    /\ UNCHANGED <<points, constraints, error>>
    /\ UNCHANGED <<drawingVars, indexVars, otherVars>>

\* sketcher.addGeometry(part_features, False)
SketchGeometry ==
    /\ pc = "sketch.indexed"
    /\ sketches' = <<[geometry |-> features, constraints |-> <<>>]>>
    /\ pc' = "sketch.geometry"
    /\ UNCHANGED <<elements, exterior, drawing, groups, operations, error>>
    /\ UNCHANGED <<polygonVars, indexVars, otherVars>>

\* The constraints of the lower-left point and of each element.
SketchConstrain ==
    /\ pc = "sketch.geometry"
    /\ \E got \in {SketchFeatures(SketchElements, Len(drawing.elements),
                                  TSW(drawing.elements))} :
       \E built \in {SketchConstraints(SketchElements, got.chains, Len(drawing.elements),
                                       TSW(drawing.elements), origin_index)} :
           /\ constraints' = IF built.ok THEN built.constraints ELSE constraints
           /\ error' = built.error
           /\ pc' = IF built.ok THEN "sketch.constraints" ELSE "failed"
    /\ UNCHANGED <<points, features, origin_index>>
    /\ UNCHANGED <<drawingVars, indexVars, otherVars>>

\* sketcher.addConstraint(constraints)
SketchAddConstraint ==
    /\ pc = "sketch.constraints"
    /\ sketches' = [sketches EXCEPT ![1].constraints = constraints]
    /\ pc' = "sketch.done"
    /\ UNCHANGED <<elements, exterior, drawing, groups, operations, error>>
    /\ UNCHANGED <<polygonVars, indexVars, otherVars>>

NextSketch ==
    \/ SketchElement
    \/ SketchDrawing
    \/ SketchExtract
    \/ SketchIndex
    \/ SketchGeometry
    \/ SketchConstrain
    \/ SketchAddConstraint

SpecSketch == InitSketch /\ [][NextSketch]_vars

\* ------------------------------------------- plane_process, run twice
InitRerun == Blank /\ pc = "elements"

\* The first run has ended; drawing.plane_process(body) is called again on
\* the same drawing, with a new body.
Rerun ==
    /\ pc \in {"done", "failed"}
    /\ drawing.created
    /\ run = 1
    /\ first' = Ran(groups, sketches, operations, pc, error)
    /\ run' = 2
    /\ groups' = <<>>
    /\ sketches' = <<>>
    /\ operations' = <<>>
    /\ error' = ""
    /\ pc' = "drawing"
    /\ UNCHANGED <<elements, exterior, drawing>>
    /\ UNCHANGED <<polygonVars, indexVars, reorientVars, chainVars, placeVars, arcVars, walkVars>>

NextRerun ==
    \/ PolygonAppend
    \/ CircleAppend
    \/ DrawingInit
    \/ PlaneProcessGroups
    \/ GroupProcess
    \/ Rerun

SpecRerun == InitRerun /\ [][NextRerun]_vars

\* ------------------------------------------- a drawing, reoriented
\* The identity, a translation, and quarter and three-quarter turns that
\* also translate; a drawing at the origin facing +Z and one elsewhere
\* facing +X.
Placements ==
    {Placement(Vector(0, 0, 0), 0), Placement(Vector(-1, -1, 0), 0),
     Placement(Vector(2, 0, 0), 1), Placement(Vector(-1, -1, 0), 3)}
Frames ==
    {[contact |-> Vector(0, 0, 0), normal |-> Vector(0, 0, 1)],
     [contact |-> Vector(1, 2, 3), normal |-> Vector(1, 0, 0)]}

InitPlace == Blank /\ pc = "elements"

\* drawing.reorient(placement) of a drawing made with a contact and a normal.
DrawingReorient ==
    /\ pc = "drawing"
    /\ \E frame \in Frames, placement \in Placements :
       \E result \in {drawing_reorient(drawing, frame.contact, frame.normal, placement)} :
           LET message == drawing_init_error(result.drawing.elements,
                                             result.drawing.exterior)
           IN  /\ placed' = [contact |-> frame.contact, normal |-> frame.normal,
                             placement |-> placement, called |-> TRUE,
                             result |-> IF message = "" THEN result ELSE NoPlaced.result]
               /\ error' = message
               /\ pc' = IF message = "" THEN "reoriented" ELSE "failed"
    /\ UNCHANGED <<polygonVars, drawingVars, indexVars>>
    /\ UNCHANGED <<reorientVars, chainVars, rerunVars, arcVars, walkVars>>

NextPlace == PolygonAppend \/ CircleAppend \/ DrawingInit \/ DrawingReorient

SpecPlace == InitPlace /\ [][NextPlace]_vars

\* -------------------------------------------- specification of the arc solver
\* ApexArcFeature(begin, apex, end) on the corners of a grid around the apex,
\* oblique edges included.
ArcReach == 3
Corners ==
    [begin : [x : -ArcReach..ArcReach, y : -ArcReach..ArcReach, radius : {0}],
     apex : [x : {0}, y : {0}, radius : 0..MaxRadius],
     end : [x : -ArcReach..ArcReach, y : -ArcReach..ArcReach, radius : {0}]]

\* The vectors of the grid, up to a reach of 4, for which the solver run in
\* IEEE double arithmetic on begin = end = apex + vector leaves a sac_angle
\* that is not zero: normalize_2d of twice the rounded unit vector and atan2
\* of the vector itself differ in the last place.  Every other colinear
\* corner of the grid leaves a divisor of exactly 0.0.
Inexact == {Point(3, -4), Point(3, -1), Point(3, 1), Point(3, 4)}

\* What rounding leaves in the divisor of a corner, in units of the last place.
Roundings(corner) ==
    LET ab == PointSub(Point(corner.begin.x, corner.begin.y),
                       Point(corner.apex.x, corner.apex.y))
        ae == PointSub(Point(corner.end.x, corner.end.y),
                       Point(corner.apex.x, corner.apex.y))
    IN  IF ab = ae /\ ab \in Inexact THEN {1} ELSE {0}

InitArc == Blank /\ pc = "arc"

\* The three points of a corner are chosen.
ArcCorner ==
    /\ pc = "arc"
    /\ \E corner \in Corners :
           solved' = [begin |-> corner.begin, apex |-> corner.apex,
                      end |-> corner.end, called |-> FALSE, error |-> ""]
    /\ pc' = "arc.corner"
    /\ UNCHANGED error
    /\ UNCHANGED <<polygonVars, drawingVars, indexVars>>
    /\ UNCHANGED <<reorientVars, chainVars, rerunVars, placeVars, walkVars>>

\* ApexArcFeature(begin, apex, end).
ArcSolve ==
    /\ pc = "arc.corner"
    /\ \E rounding \in Roundings(solved) :
       \E message \in {arc_error(solved.begin, solved.apex, solved.end, rounding)} :
           /\ solved' = [solved EXCEPT !.called = TRUE, !.error = message]
           /\ error' = message
           /\ pc' = IF message = "" THEN "arc.solved" ELSE "failed"
    /\ UNCHANGED <<polygonVars, drawingVars, indexVars>>
    /\ UNCHANGED <<reorientVars, chainVars, rerunVars, placeVars, walkVars>>

NextArc == ArcCorner \/ ArcSolve

SpecArc == InitArc /\ [][NextArc]_vars

\* ------------------------------------------- the walk of the JSON tree
\* node_process handles a node and then its children in their order, and no
\* field is restored on the way back: the walk handles the nodes of the tree
\* in pre-order, one after the other.
MaxNodes == 6
Normals == {<<0, 0, 1>>, <<1, 0, 0>>}
Kinds == allowed_kinds \cup {"Hole"}
Nodes ==
    [Kind : Kinds \ {"Mount"}, Normal : {NoNormal}] \cup [Kind : {"Mount"}, Normal : Normals]

InitWalk == Blank /\ pc = "process"

\* process(indent): the JSON file is read.
Process ==
    /\ pc = "process"
    /\ \E ind \in {"", "  "} : indent' = ind
    /\ pc' = "walk"
    /\ UNCHANGED <<converter, visited, error>>
    /\ UNCHANGED <<polygonVars, drawingVars, indexVars>>
    /\ UNCHANGED <<reorientVars, chainVars, rerunVars, placeVars, arcVars>>

\* node_process of the next node of the walk.
NodeProcess ==
    /\ pc = "walk"
    /\ Len(visited) < MaxNodes
    /\ \E node \in Nodes :
       \E got \in {node_process(converter, indent, node, Len(visited) + 1)} :
           /\ converter' = got.converter
           /\ visited' = Append(visited, node.Kind)
           /\ error' = got.error
           /\ pc' = IF got.ok THEN "walk" ELSE "failed"
    /\ UNCHANGED indent
    /\ UNCHANGED <<polygonVars, drawingVars, indexVars>>
    /\ UNCHANGED <<reorientVars, chainVars, rerunVars, placeVars, arcVars>>

NextWalk == Process \/ NodeProcess

SpecWalk == InitWalk /\ [][NextWalk]_vars

\* ------------------------------------------------ properties of a drawing
\* plane_process has partitioned the elements of the drawing.
Grouped == drawing.created /\ pc # "drawing"

Slots == UNION {{<<g, k>> : k \in 1..Len(groups[g].group)} : g \in 1..Len(groups)}

\* C1: the groups of plane_process are a partition of the elements: each
\* element of the tuple is in exactly one place of exactly one group, every
\* member of a group is an element of the tuple, and the is_exterior,
\* diameter and depth of each member are those of its group's key.
C1_Partition ==
    Grouped =>
        /\ \A e \in 1..Len(elements) :
               Cardinality({s \in Slots : groups[s[1]].group[s[2]] = elements[e]}) = 1
        /\ Cardinality(Slots) = Len(elements)
        /\ \A s \in Slots :
               LET member == groups[s[1]].group[s[2]]
                   key == groups[s[1]].key
               IN  /\ member.is_exterior = key.is_exterior
                   /\ member.diameter = key.diameter
                   /\ member.depth = key.depth

\* Two elements with the same key, in one group.
C1_Witness ==
    /\ Grouped
    /\ Len(elements) = 2
    /\ Len(groups) = 1
    /\ Len(groups[1].group) = 2

\* C2: at most one group of plane_process has is_exterior = TRUE.
C2_OneExteriorGroup ==
    Grouped => Cardinality({g \in 1..Len(groups) : groups[g].key.is_exterior}) <= 1

ExteriorBad(g) ==
    /\ groups[g].key.is_exterior
    /\ Len(groups[g].group) # 1 \/ groups[g].group[1].depth <= 0

\* C3: a group whose key is exterior and that has more than one element, or
\* an element whose depth is not positive, gets no sketch and no operation:
\* the run fails with an error when the loop reaches it and never ends well.
\* Every operation made for an exterior group is a Pad of one element whose
\* depth is positive.
C3_ExteriorGroups ==
    Grouped =>
        \A g \in 1..Len(groups) :
            /\ ExteriorBad(g) =>
                   /\ Len(operations) < g
                   /\ Len(sketches) < g
                   /\ pc # "done"
                   /\ (Len(operations) = g - 1 /\ pc # "groups") =>
                          /\ pc = "failed"
                          /\ error \in {"Exterior should be all by itself",
                                        "Exterior depth '{exterior.name}' is not positive."}
            /\ (g <= Len(operations) /\ groups[g].key.is_exterior) =>
                   /\ Len(groups[g].group) = 1
                   /\ groups[g].group[1].depth > 0
                   /\ operations[g].kind = "Pad"

\* The loop has stopped at an exterior group of two elements.
C3_Witness ==
    /\ Grouped
    /\ pc = "failed"
    /\ error = "Exterior should be all by itself"
    /\ ExteriorBad(Len(operations) + 1)
    /\ Len(groups[Len(operations) + 1].group) = 2

Descends(a, b) ==
    \/ a.is_exterior /\ ~b.is_exterior
    \/ a.is_exterior = b.is_exterior /\ a.diameter > b.diameter
    \/ a.is_exterior = b.is_exterior /\ a.diameter = b.diameter /\ a.depth > b.depth

\* One circle and one exterior polygon of another depth, in either order.
CircleAndExterior ==
    /\ Len(elements) = 2
    /\ \E c, p \in 1..2 :
           /\ elements[c].kind = "circle" /\ ~elements[c].is_exterior
           /\ elements[p].kind = "polygon" /\ elements[p].is_exterior
           /\ elements[c].depth # elements[p].depth

\* C4: the groups are taken in descending order of their keys: an exterior
\* group before the others, then the larger diameter first, then the larger
\* depth first; the members of a group are in the order of the tuple; the
\* operations are made in the order of the groups.  A circle and an exterior
\* polygon of another depth make two groups of one element, the polygon first.
C4_DescendingOrder ==
    Grouped =>
        /\ \A g, h \in 1..Len(groups) : g < h => Descends(groups[g].key, groups[h].key)
        /\ \A g \in 1..Len(groups) :
               \A j, k \in 1..Len(groups[g].group) :
                   j < k => groups[g].group[j].id < groups[g].group[k].id
        /\ \A g \in 1..Len(operations) :
               operations[g].group =
                   [k \in 1..Len(groups[g].group) |-> groups[g].group[k].id]
        /\ CircleAndExterior =>
               /\ Len(groups) = 2
               /\ Len(groups[1].group) = 1 /\ groups[1].group[1].kind = "polygon"
               /\ Len(groups[2].group) = 1 /\ groups[2].group[1].kind = "circle"

\* A circle and an exterior polygon have been made into a Pad and a Hole.
C4_Witness ==
    /\ Grouped
    /\ CircleAndExterior
    /\ pc = "done"
    /\ Len(operations) = 2
    /\ operations[1].kind = "Pad" /\ operations[2].kind = "Hole"

\* C5: the construction of a drawing fails, and there is no drawing, when
\* there are no elements, or an exterior is given that is not one of the
\* elements, or an exterior is given whose depth is not positive; otherwise
\* the drawing exists and holds the elements and the exterior.
C5_Construction ==
    pc # "elements" =>
        IF \/ elements = <<>>
           \/ exterior # NoElement /\ ~(\E i \in 1..Len(elements) : elements[i] = exterior)
           \/ exterior # NoElement /\ exterior.depth <= 0
        THEN pc = "failed" /\ error # "" /\ ~drawing.created
        ELSE drawing.created /\ drawing.elements = elements /\ drawing.exterior = exterior

\* A drawing refused for the depth of its exterior, one of its elements.
C5_Witness ==
    /\ pc = "failed"
    /\ ~drawing.created
    /\ \E i \in 1..Len(elements) : elements[i] = exterior
    /\ exterior.depth <= 0

\* ---------------------------------------- properties of a feature's index
\* A write of a value >= -1 came before entry k of the log.
Assigned(k) == \E j \in 1..(k - 1) : log[j].op = "set" /\ log[j].value >= -1

\* What the index holds before entry k of the log.
StoredBefore(k) == IF k = 1 THEN UnsetIndex ELSE log[k - 1].stored

FirstAssigned(k) ==
    log[CHOOSE j \in 1..(k - 1) :
            /\ log[j].op = "set" /\ log[j].value >= -1
            /\ ~Assigned(j)].value

\* C10: the index is set exactly once: a read before the first write of a
\* value >= -1 fails; that write succeeds and stores its value; every later
\* write fails and leaves the index as it was, and every later read returns
\* the value of that write; a write of a value < -1 fails and leaves the index
\* unset.
C10_SetOnce ==
    /\ feature_index = StoredBefore(Len(log) + 1)
    /\ \A k \in 1..Len(log) :
           LET entry == log[k]
           IN  IF entry.op = "get"
               THEN /\ entry.stored = StoredBefore(k)
                    /\ entry.ok = Assigned(k)
                    /\ Assigned(k) => entry.value = FirstAssigned(k)
               ELSE IF Assigned(k)
               THEN ~entry.ok /\ entry.stored = StoredBefore(k)
                    /\ entry.stored = FirstAssigned(k)
               ELSE IF entry.value >= -1
               THEN entry.ok /\ entry.stored = entry.value
               ELSE ~entry.ok /\ entry.stored = UnsetIndex

\* A failed read, a refused write, the write that sets the index, and a
\* later write of another value.
C10_Witness ==
    /\ Len(log) = 4
    /\ log[1].op = "get" /\ ~log[1].ok
    /\ log[2].op = "set" /\ log[2].value < -1 /\ ~log[2].ok
    /\ log[3].op = "set" /\ log[3].ok
    /\ log[4].op = "set" /\ log[4].value >= -1 /\ log[4].value # log[3].value
    /\ ~log[4].ok
    /\ feature_index = log[3].value

\* ------------------------------------------------ properties of one polygon
Positions(kinds, index, slot) ==
    {j \in 1..Len(constraints) :
        /\ constraints[j].kind \in kinds
        /\ Len(constraints[j].args) >= slot
        /\ constraints[j].args[slot] = index}

ConstraintAt(j, kind, args) ==
    /\ j <= Len(constraints)
    /\ constraints[j] = [kind |-> kind, args |-> args]

FeatureIndices == {features[i].index : i \in 1..Len(features)}

\* C6: every element is pinned to the origin primitive: the constraints of a
\* polygon chain hold at least one DistanceX and at least one DistanceY that
\* binds a point of one of the chain's primitives to the origin primitive.
C6_PinnedToOrigin ==
    pc = "constrained" =>
        \A kind \in {"DistanceX", "DistanceY"} :
            \E j \in 1..Len(constraints) :
                /\ constraints[j].kind = kind
                /\ constraints[j].args[1] = origin_index
                /\ constraints[j].args[3] \in FeatureIndices

\* C7: each Arc of a constrained chain has exactly one Radius constraint, of
\* its index and radius; DistanceX and DistanceY from the origin (anchor 1) to
\* its center (anchor 3), of center.x and center.y, come right after it, and
\* are left out exactly when the arc's predecessor and successor are both
\* Arcs; the arc's junction constraint comes after these.
C7_ArcRule(i) ==
    LET n == Len(features)
        at == features[i]
        before == features[Before(i, n)]
        after == features[After(i, n)]
        radii == Positions({"Radius"}, at.index, 1)
        centers == {j \in Positions({"DistanceX", "DistanceY"}, at.index, 3) :
                       constraints[j].args[4] = 3}
        tangent == <<before.index, finish_key(before), at.index, start_key(at)>>
    IN  /\ Cardinality(radii) = 1
        /\ LET j == CHOOSE k \in radii : TRUE
           IN  /\ constraints[j].args = <<at.index, at.radius>>
               /\ IF IsArc(before) /\ IsArc(after)
                  THEN /\ centers = {}
                       /\ ConstraintAt(j + 1, "Tangent", tangent)
                  ELSE /\ centers = {j + 1, j + 2}
                       /\ ConstraintAt(j + 1, "DistanceX",
                                       <<origin_index, 1, at.index, 3, at.center.x>>)
                       /\ ConstraintAt(j + 2, "DistanceY",
                                       <<origin_index, 1, at.index, 3, at.center.y>>)
                       /\ ConstraintAt(j + 3, "Tangent", tangent)

C7_ArcConstraints ==
    pc = "constrained" =>
        \A i \in 1..Len(features) : IsArc(features[i]) => C7_ArcRule(i)

\* A constrained chain with an arc between two arcs and an arc that is not.
C7_Witness ==
    /\ pc = "constrained"
    /\ \E i \in 1..Len(features) :
           /\ IsArc(features[i])
           /\ IsArc(features[Before(i, Len(features))])
           /\ IsArc(features[After(i, Len(features))])
    /\ \E i \in 1..Len(features) :
           /\ IsArc(features[i])
           /\ ~IsArc(features[Before(i, Len(features))])

\* C8: each primitive of a constrained chain has exactly one junction
\* constraint with its predecessor: a Tangent of (before.index,
\* before.finish_key) and (at.index, at.start_key) that no distance
\* constraint follows when either is an Arc, otherwise a Coincident of the
\* same anchors followed by DistanceX and DistanceY from the origin to
\* (at.index, at.start_key), of at.start.x and at.start.y.
C8_JunctionRule(i) ==
    LET n == Len(features)
        at == features[i]
        before == features[Before(i, n)]
        junctions == Positions({"Tangent", "Coincident"}, at.index, 3)
        anchors == <<before.index, finish_key(before), at.index, start_key(at)>>
    IN  /\ Cardinality(junctions) = 1
        /\ LET j == CHOOSE k \in junctions : TRUE
           IN  IF IsArc(before) \/ IsArc(at)
               THEN /\ ConstraintAt(j, "Tangent", anchors)
                    /\ j < Len(constraints) =>
                           constraints[j + 1].kind \notin {"DistanceX", "DistanceY"}
               ELSE /\ ConstraintAt(j, "Coincident", anchors)
                    /\ ConstraintAt(j + 1, "DistanceX",
                           <<origin_index, 1, at.index, start_key(at), at.start.x>>)
                    /\ ConstraintAt(j + 2, "DistanceY",
                           <<origin_index, 1, at.index, start_key(at), at.start.y>>)

C8_Junctions ==
    pc = "constrained" => \A i \in 1..Len(features) : C8_JunctionRule(i)

\* A constrained chain with a line after a line and a line after an arc.
C8_Witness ==
    /\ pc = "constrained"
    /\ \E i \in 1..Len(features) :
           ~IsArc(features[i]) /\ ~IsArc(features[Before(i, Len(features))])
    /\ \E i \in 1..Len(features) :
           ~IsArc(features[i]) /\ IsArc(features[Before(i, Len(features))])

\* C9: a Line has start_key 1 and finish_key 2, and so has an Arc unless its
\* sweep_angle is negative, when the two keys are swapped.
C9_AnchorKeys ==
    \A i \in 1..Len(features) :
        LET f == features[i]
        IN  IF IsArc(f) /\ f.sweep_angle < 0
            THEN start_key(f) = 2 /\ finish_key(f) = 1
            ELSE start_key(f) = 1 /\ finish_key(f) = 2

\* ------------------------------------------------ line suppression (C13, C14)
\* The polygon's chain has been computed.
Synthesized == features # <<>>

PointAt(i) == Point(points[i].x, points[i].y)

Rounded(i) == points[i].radius > 0

ArcPosition(i) ==
    CHOOSE k \in 1..Len(features) : IsArc(features[k]) /\ features[k].apex = PointAt(i)

ArcAt(i) == features[ArcPosition(i)]

EdgeLength(i) == Magnitude(PointSub(PointAt(Before(i, Len(points))), PointAt(i)))

\* The tangent legs that the two arcs at the ends of edge i lay on it.
Legs(i) ==
    LET b == Before(i, Len(points))
    IN  Magnitude(PointSub(ArcAt(b).finish, ArcAt(b).apex))
        + Magnitude(PointSub(ArcAt(i).start, ArcAt(i).apex))

BothRounded(i) == Rounded(Before(i, Len(points))) /\ Rounded(i)

Meets(i) == BothRounded(i) /\ Abs(Legs(i) - EdgeLength(i)) < LineEpsilon

LinePositions == {k \in 1..Len(features) : features[k].kind = "Line"}

EdgeStart(i) ==
    LET b == Before(i, Len(points))
    IN  IF Rounded(b) THEN ArcAt(b).finish ELSE PointAt(b)

EdgeFinish(i) == IF Rounded(i) THEN ArcAt(i).start ELSE PointAt(i)

\* C13: in a computed chain, an edge with an arc at both ends whose legs sum
\* to within 1e-9 of the edge's length has no line, and the arc at its first
\* end is directly followed (cyclically) by the arc at its second end; every
\* other edge has its line, from the end of the arc or the vertex before it to
\* the start of the arc or the vertex after it, directly before what stands at
\* its second end.
C13_Suppression ==
    Synthesized =>
        /\ \A i \in 1..Len(points) :
               IF Meets(i)
               THEN After(ArcPosition(Before(i, Len(points))), Len(features)) = ArcPosition(i)
               ELSE \E k \in LinePositions :
                        /\ features[k].start = EdgeStart(i)
                        /\ features[k].finish = EdgeFinish(i)
                        /\ Rounded(i) => After(k, Len(features)) = ArcPosition(i)
        /\ Cardinality(LinePositions) = Cardinality({i \in 1..Len(points) : ~Meets(i)})

\* A chain with a suppressed edge whose legs fall short of it by less than the
\* tolerance, and an edge between two arcs that keeps its line.
C13_Witness ==
    /\ Synthesized
    /\ \E i \in 1..Len(points) : Meets(i) /\ Legs(i) # EdgeLength(i)
    /\ \E i \in 1..Len(points) : BothRounded(i) /\ ~Meets(i)

\* features_get has run on the polygon.
FeaturesGetDone == pc \notin {"points", "polygon"}

\* By how much the legs of the arcs at the two ends of edge i exceed it.
Excess(arcs, i) ==
    LET b == Before(i, Len(points))
    IN  Magnitude(PointSub(arcs[b].feature.finish, arcs[b].feature.apex))
        + Magnitude(PointSub(arcs[i].feature.start, arcs[i].feature.apex))
        - EdgeLength(i)

ArcsSolved(arcs) == \A i \in 1..Len(points) : Rounded(i) => arcs[i].ok

TooBig == pc = "failed" /\ error = "Arcs are too big" /\ features = <<>>

ExcessRule(arcs, least) ==
    (FeaturesGetDone /\ ArcsSolved(arcs)) =>
        ((\E i \in 1..Len(points) : BothRounded(i) /\ Excess(arcs, i) >= least) <=> TooBig)

\* C14 (as stated): whenever the legs of two adjacent arcs exceed the edge
\* between their apexes by any positive amount, features_get fails and returns
\* no chain.
C14_AnyExcessFails == ExcessRule(Arcs(points), 1)

\* C14 (amended): features_get fails with "Arcs are too big" and returns no
\* chain exactly when the legs of two adjacent arcs exceed the edge between
\* their apexes by 1e-9 or more; a smaller excess is an "exact" match, the
\* line is suppressed and the chain is returned.
C14_ExcessFails == ExcessRule(Arcs(points), LineEpsilon)

\* A polygon that features_get refused because two arcs are too big.
C14_Witness ==
    /\ TooBig
    /\ \E i \in 1..Len(points) : BothRounded(i) /\ Excess(Arcs(points), i) >= LineEpsilon

\* ------------------------------------------------------ arc geometry (C18, C19)
ArcFeatures == {features[k] : k \in {j \in 1..Len(features) : IsArc(features[j])}}

\* finish_angle - start_angle of an arc, before any correction.
RawSweep(f) == Atan2(PointSub(f.finish, f.center)) - Atan2(PointSub(f.start, f.center))

\* C18: the sweep angle of every arc lies in (-180, 180] degrees, that is in
\* (-pi, pi].
C18_SweepRange ==
    \A f \in ArcFeatures : -Degrees180 < f.sweep_angle /\ f.sweep_angle <= Degrees180

\* A chain with an arc whose angle difference had to be brought back.
C18_Witness ==
    \E f \in ArcFeatures : RawSweep(f) > Degrees180 \/ RawSweep(f) <= -Degrees180

Tangent(f) ==
    /\ AxisParallel(PointSub(f.start, f.center))
    /\ AxisParallel(PointSub(f.finish, f.center))
    /\ Magnitude(PointSub(f.start, f.center)) = f.radius
    /\ Magnitude(PointSub(f.finish, f.center)) = f.radius
    /\ Magnitude(PointSub(f.apex, f.start)) = Magnitude(PointSub(f.apex, f.finish))

\* The corner begin = (0, 0), apex = (10, 0) with radius 2, end = (10, 10).
ExampleArc ==
    ApexArcFeature([x |-> 0, y |-> 0, radius |-> 0], [x |-> 10, y |-> 0, radius |-> 2],
                   [x |-> 10, y |-> 10, radius |-> 0])

ExampleSolved(arc) ==
    /\ arc.ok
    /\ arc.feature.center = Point(8, 2)
    /\ arc.feature.start = Point(8, 0)
    /\ arc.feature.finish = Point(10, 2)
    /\ Magnitude(PointSub(arc.feature.apex, arc.feature.start)) = 2
    /\ Magnitude(PointSub(arc.feature.apex, arc.feature.finish)) = 2
    /\ Abs(arc.feature.sweep_angle) = 90

C20_ReorientNames ==
    \A k \in 1..Len(reorient_log) :
        LET call == reorient_log[k]
        IN  call.after.name = IF call.suffix.none THEN <<>>
                              ELSE call.before.name \o call.suffix.text

\* --------------------------------------------- properties of features_get
\* C12: the chain of an element is computed at most once: every
\* features_get call after the first returns the objects the first returned
\* and constructs none.
C12_ComputedOnce ==
    \A k \in 2..Len(returned) :
        /\ returned[k].features = returned[1].features
        /\ returned[k].constructed = 0

\* ------------------------------------------------- properties of a failure
\* C15: when plane_process fails, no sketch of the drawing has been handed
\* any geometry or any constraint, whichever group or element failed.
C15_NoPartialOutput ==
    pc = "failed" =>
        \A i \in 1..Len(sketches) :
            sketches[i].geometry = <<>> /\ sketches[i].constraints = <<>>

\* ------------------------------------------------ properties of one sketch()
\* sketch() has given the lower-left feature, the first of the list, its index.
IndicesAssigned == features # <<>> /\ features[1].index # UnsetIndex

OriginRead == origin_index_get(origin_index)

\* C11: origin_index is unset after construction and reading it raises in
\* every state before sketch() has assigned the indices; once they are
\* assigned it is the index of the lower-left point feature, reading it
\* succeeds, and it stays as it is from then on.
C11_OriginIndex ==
    /\ [](~IndicesAssigned =>
              /\ origin_index = UnsetIndex
              /\ ~OriginRead.ok /\ OriginRead.error = "Origin Index not set.")
    /\ [](IndicesAssigned =>
              /\ features[1].kind = "Point"
              /\ OriginRead.ok /\ OriginRead.value = features[1].index)
    /\ [][OriginRead.ok => origin_index' = origin_index]_vars

\* A finished sketch() of a drawing with elements, its origin_index set.
C11_Witness ==
    /\ pc = "sketch.done"
    /\ Len(features) > 1
    /\ OriginRead.ok
    /\ OriginRead.value = features[1].index

Distances ==
    {constraints[j] : j \in {k \in 1..Len(constraints) :
                                 constraints[k].kind \in {"DistanceX", "DistanceY"}}}

\* The two constraints that pin the lower-left point to the root origin
\* carry the x and the y of the corner tsw of the drawing's box.
PinsCarryTSW ==
    constraints # <<>> =>
        /\ constraints[1] = Constraint("DistanceX",
               <<RootOrigin, 1, origin_index, 1, TSW(drawing.elements).x>>)
        /\ constraints[2] = Constraint("DistanceY",
               <<RootOrigin, 1, origin_index, 1, TSW(drawing.elements).y>>)
        /\ \A c \in Distances :
               c.args[1] = RootOrigin => c \in {constraints[1], constraints[2]}

\* C16: in every drawing that sketch() accepts, each DistanceX and DistanceY
\* measured from the origin primitive is at least 0, and the two constraints
\* to the root origin carry the x and y of tsw.
C16_NonNegative ==
    /\ \A c \in Distances : c.args[1] = origin_index => c.args[5] >= 0
    /\ PinsCarryTSW

\* ------------------------------------------------- properties of two runs
SecondRunEnded == run = 2 /\ pc \in {"done", "failed"}

Unindexed(fs) == [i \in 1..Len(fs) |-> [fs[i] EXCEPT !.index = UnsetIndex]]

\* The chains of the first n elements of the quadrant 1 drawing, end to end.
RECURSIVE Encountered(_, _)
Encountered(es, n) ==
    IF n = 0 THEN <<>>
    ELSE Encountered(es, n - 1) \o element_features_get(es[n]).features

InOrder(fs) == \A i \in 1..Len(fs) : fs[i].index = i - 1

\* C21: the lower-left point feature is the first feature and has index 0;
\* the features after it are those of the elements in the drawing's order,
\* each chain in its own order, with the indices 1, 2, ... N-1; addGeometry
\* is handed the feature of index i at position i; and every feature has its
\* index before the first constraint is built.
C21_Indices ==
    /\ features # <<>> =>
           /\ Unindexed(features)
                  = <<ApexPointFeature(TSW(drawing.elements))>>
                    \o Encountered(SketchElements, Len(drawing.elements))
           /\ pc # "sketch.features" => InOrder(features)
    /\ \A i \in 1..Len(sketches) :
           InOrder(sketches[i].geometry) /\ sketches[i].geometry = features
    /\ constraints # <<>> => features # <<>> /\ InOrder(features)
    /\ pc \in {"sketch.constraints", "sketch.done"} => constraints # <<>>

\* A finished sketch() of two elements with more than one feature each.
C21_Witness ==
    /\ pc = "sketch.done"
    /\ Len(drawing.elements) = 2
    /\ Len(features) > 4
    /\ features[2].kind # features[Len(features)].kind

\* ------------------------------------------- the order of a chain (C22)
\* The line of edge i is left out: both ends rounded, legs within tolerance.
Suppressed(arcs, i) == BothRounded(i) /\ Abs(Excess(arcs, i)) < LineEpsilon

RoundedCount == Cardinality({k \in 1..Len(points) : Rounded(k)})

\* How many features the vertices before vertex i contribute.
Ahead(arcs, i) ==
    Cardinality({k \in 1..(i - 1) : ~Suppressed(arcs, k)})
    + Cardinality({k \in 1..(i - 1) : Rounded(k)})

VertexRule(arcs, i) ==
    LET b == Before(i, Len(points))
        line == Ahead(arcs, i) + 1
        arc == IF Suppressed(arcs, i) THEN line ELSE line + 1
    IN  /\ ~Suppressed(arcs, i) =>
               /\ line <= Len(features)
               /\ features[line].kind = "Line"
               /\ features[line].start
                      = IF Rounded(b) THEN arcs[b].feature.finish ELSE PointAt(b)
               /\ features[line].finish
                      = IF Rounded(i) THEN arcs[i].feature.start ELSE PointAt(i)
        /\ Rounded(i) =>
               /\ arc <= Len(features)
               /\ [features[arc] EXCEPT !.index = UnsetIndex] = arcs[i].feature

ChainRule(arcs) ==
    /\ \A i \in 1..Len(points) : VertexRule(arcs, i)
    /\ Len(features) = Ahead(arcs, Len(points) + 1)
    /\ Len(features) >= 1
    /\ Len(features) <= 2 * Len(points)
    /\ (Len(features) < Len(points) + RoundedCount)
           <=> (\E i \in 1..Len(points) : Suppressed(arcs, i))

\* C22: the chain that features_get returns visits the vertices in input
\* order and holds, for vertex i, the surviving line of the edge that ends
\* at it and then its arc if it has one; its length is at least 1, at most
\* 2n, and less than n plus the number of arcs exactly when a line was
\* suppressed.
C22_ChainOrder == Synthesized => \E arcs \in {Arcs(points)} : ChainRule(arcs)

\* A chain with a suppressed line, a line between two arcs and a sharp vertex.
C22_Witness ==
    /\ Synthesized
    /\ Len(features) < Len(points) + RoundedCount
    /\ \E i \in 1..Len(points) : BothRounded(i) /\ ~Suppressed(Arcs(points), i)
    /\ \E i \in 1..Len(points) : ~Rounded(i)

\* ------------------------------------- properties of a reoriented drawing
SameButPlace(old, new) ==
    /\ new.kind = old.kind
    /\ new.depth = old.depth
    /\ new.is_exterior = old.is_exterior
    /\ new.key = old.key
    /\ Len(new.points) = Len(old.points)
    /\ \A k \in 1..Len(old.points) :
           /\ new.points[k].radius = old.points[k].radius
           /\ Vector(new.points[k].x, new.points[k].y, 0)
                  = PlacementMul(placed.placement,
                                 Vector(old.points[k].x, old.points[k].y, 0))

ExteriorPlaces(d) == {i \in 1..Len(d.elements) : d.elements[i].id = d.exterior.id}

ReorientedDrawing ==
    LET new == placed.result.drawing
    IN  /\ new.created
        /\ Len(new.elements) = Len(drawing.elements)
        /\ \A i \in 1..Len(drawing.elements) :
               /\ SameButPlace(drawing.elements[i], new.elements[i])
               /\ \A j \in 1..Len(drawing.elements) :
                      new.elements[i].id # drawing.elements[j].id
        /\ IF drawing.exterior = NoElement THEN new.exterior = NoElement
           ELSE /\ new.exterior # NoElement
                /\ ExteriorPlaces(new) = ExteriorPlaces(drawing)
                /\ \E i \in ExteriorPlaces(drawing) : new.exterior = new.elements[i]
        /\ placed.result.contact = PlacementMul(placed.placement, placed.contact)
        /\ placed.result.normal
               = PlacementMul(Placement(Vector(0, 0, 0), placed.placement.Rotation),
                              placed.normal)

\* C23: ApexDrawing.reorient always returns a new drawing, with as many
\* elements in the same order, each of the kind, depth, is_exterior flag and
\* key of its original and moved by the placement, the exterior at the
\* position of the original exterior or none, the contact moved by the
\* whole placement and the normal by its rotation alone; the drawing it was
\* called on is left as it was.
C23_Reorient ==
    /\ [](placed.called => pc = "reoriented" /\ ReorientedDrawing)
    /\ [][placed' # placed => UNCHANGED <<drawing, elements, exterior>>]_vars

\* A drawing of two elements with an exterior, turned and moved.
C23_Witness ==
    /\ pc = "reoriented"
    /\ Len(drawing.elements) = 2
    /\ drawing.exterior = drawing.elements[2]
    /\ placed.placement.Rotation = 1
    /\ placed.placement.Base # Vector(0, 0, 0)
    /\ placed.contact # Vector(0, 0, 0)
    /\ placed.normal = Vector(1, 0, 0)

\* ------------------------------------------- the emitted arc (C24)
\* The angle at the center of the arc's start tangent point.
TangentAngle(f) == Atan2(PointSub(f.start, f.center))

Toward(from, to) == Point(Sgn(to.x - from.x), Sgn(to.y - from.y))

\* The start lies on the edge toward the vertex before the apex and the
\* finish on the edge toward the vertex after it.
TangentsInPlace(i) ==
    LET f == ArcAt(i)
    IN  /\ Toward(f.apex, f.start) = Toward(PointAt(i), PointAt(Before(i, Len(points))))
        /\ Toward(f.apex, f.finish) = Toward(PointAt(i), PointAt(After(i, Len(points))))

Emitted(f) ==
    /\ f.sweep_angle >= 0 =>
           f.start_angle = TangentAngle(f) /\ f.end_angle = TangentAngle(f) + f.sweep_angle
    /\ f.sweep_angle < 0 =>
           f.start_angle = TangentAngle(f) + f.sweep_angle /\ f.end_angle = TangentAngle(f)
    /\ f.end_angle - f.start_angle = Abs(f.sweep_angle)
    /\ f.end_angle - f.start_angle >= 0

\* C24: the arc handed to the drawing engine runs from start_angle to
\* start_angle + sweep_angle when the sweep is not negative and has the two
\* angles swapped when it is, so its end angle minus its start angle is
\* |sweep_angle|; the start and finish tangent points stay where they are.
C24_Canonical ==
    Synthesized =>
        /\ \A f \in ArcFeatures : Emitted(f)
        /\ \A i \in 1..Len(points) : Rounded(i) => TangentsInPlace(i)

\* A chain with an arc of negative sweep, whose angles are swapped.
C24_Witness ==
    /\ Synthesized
    /\ \E f \in ArcFeatures : f.sweep_angle < 0 /\ f.end_angle = TangentAngle(f)

\* ------------------------------------------------------------------- C25
\* begin, apex and end lie on one line.
Colinear(begin, apex, end) ==
    Cross(PointSub(Point(begin.x, begin.y), Point(apex.x, apex.y)),
          PointSub(Point(end.x, end.y), Point(apex.x, apex.y))) = 0

\* C25: the arc solver fails on every colinear corner: whenever begin, apex
\* and end lie on one line, with the unit vectors toward begin and end
\* opposite or equal, ApexArcFeature raises and returns no arc.
C25_ColinearFails ==
    (solved.called /\ Colinear(solved.begin, solved.apex, solved.end))
        => solved.error # ""

\* ------------------------------------------------------------------- C26
\* C26: every chain features_get returns can be constrained: once the indices
\* of the chain and origin_index are set, constraints_append completes
\* without a failed assertion, for every polygon the constructor accepted.
C26_Constrainable ==
    pc = "indexed" => polygon_constraints_append(features, origin_index).ok

\* ------------------------------------------------------------------- C27
\* C27: whenever features_get succeeds, the tangent leg of every arc fits on
\* its two edges: the arc's start is no farther from the apex than the point
\* before it, and its finish no farther than the point after it, whether or
\* not the neighbouring points carry arcs.
C27_LegsFit ==
    Synthesized =>
        \A i \in 1..Len(points) :
            Rounded(i) =>
                /\ Magnitude(PointSub(ArcAt(i).start, PointAt(i))) <= EdgeLength(i)
                /\ Magnitude(PointSub(ArcAt(i).finish, PointAt(i)))
                       <= EdgeLength(After(i, Len(points)))

\* ------------------------------------- the operands of the constraints (C28)
\* The primitive indices a constraint refers to.
Operands(c) ==
    IF c.kind = "Radius" THEN {c.args[1]} ELSE {c.args[1], c.args[3]}

\* The index of the first feature of element n of the sketch.
RECURSIVE FirstIndex(_, _)
FirstIndex(es, n) ==
    IF n = 1 THEN 1
    ELSE FirstIndex(es, n - 1) + Len(element_features_get(es[n - 1]).features)

\* The indices first and second are circularly consecutive in the chain of
\* element n.
Consecutive(es, n, first_index, second_index) ==
    LET low == FirstIndex(es, n)
        size == Len(element_features_get(es[n]).features)
    IN  /\ first_index \in low..(low + size - 1)
        /\ second_index = low + ((first_index - low + 1) % size)

Glue == {"Tangent", "Coincident"}

\* C28: in the constraints of sketch() every index operand is -1, and then in
\* one of the two pins of the lower-left point, which come first, or the
\* index in 0..N-1 of a feature of this sketch(); every Tangent or Coincident
\* links two features that follow each other around the chain of one
\* element, and never the origin primitive.
C28_Operands ==
    constraints # <<>> =>
        /\ Len(constraints) >= 2
        /\ \A k \in 1..2 :
               constraints[k].args[1] = RootOrigin /\ constraints[k].args[3] = origin_index
        /\ \A k \in 1..Len(constraints) :
               \A operand \in Operands(constraints[k]) :
                   /\ operand = RootOrigin => k <= 2
                   /\ operand # RootOrigin =>
                          /\ operand \in 0..(Len(features) - 1)
                          /\ features[operand + 1].index = operand
        /\ \A k \in 1..Len(constraints) :
               constraints[k].kind \in Glue =>
                   /\ origin_index \notin Operands(constraints[k])
                   /\ \E n \in 1..Len(drawing.elements) :
                          Consecutive(SketchElements, n, constraints[k].args[1],
                                      constraints[k].args[3])

\* The constraints of a sketch of two polygons, the second one glued by a
\* Tangent and by a Coincident.
C28_Witness ==
    /\ pc = "sketch.done"
    /\ Len(drawing.elements) = 2
    /\ \E k \in 1..Len(constraints) :
           /\ constraints[k].kind = "Tangent"
           /\ constraints[k].args[1] >= FirstIndex(SketchElements, 2)
    /\ \E k \in 1..Len(constraints) :
           /\ constraints[k].kind = "Coincident"
           /\ constraints[k].args[1] >= FirstIndex(SketchElements, 2)

\* ------------------------------------------------- the kind of a node (C29)
\* The node that was handled last, and whether node_process raised on it.
LastKind == visited[Len(visited)]
KindRejected == pc = "failed" /\ error = KindError(LastKind)

\* C29: node_process raises no error about the kind on a node whose Kind is
\* one of Project, Document, Assembly, Solid, Mount, Extrude, Pocket and
\* Drill, and raises it on exactly the nodes whose Kind is none of them.
C29_AllowedKinds ==
    visited # <<>> => (KindRejected <=> LastKind \notin allowed_kinds)

\* ------------------------------------------- Extrude needs a job (C30)
\* Node k of the walk was handled without an error.
Succeeded(k) == k < Len(visited) \/ pc # "failed"

\* A Mount was handled before node k, and no Solid between it and node k.
Mounted(k) ==
    \E m \in 1..(k - 1) :
        /\ visited[m] = "Mount"
        /\ \A s \in (m + 1)..(k - 1) : visited[s] # "Solid"

\* After a Mount the job and its normal are current; after a Solid neither.
JobFollowsWalk ==
    (visited # <<>> /\ Succeeded(Len(visited))) =>
        /\ LastKind = "Mount" =>
               converter.CurrentJob = Len(visited) /\ converter.CurrentNormal \in Normals
        /\ LastKind = "Solid" =>
               converter.CurrentJob = None /\ converter.CurrentNormal = NoNormal

\* C30: in every walk an Extrude node is handled without an error only if a
\* Mount node was handled after the last Solid node before it: process_mount
\* sets the current job and normal, process_solid clears both, and an
\* Extrude node reached while no job is current fails with "No job present".
C30_ExtrudeNeedsMount ==
    /\ \A k \in 1..Len(visited) :
           (visited[k] = "Extrude" /\ Succeeded(k)) => Mounted(k)
    /\ JobFollowsWalk
    /\ (visited # <<>> /\ LastKind = "Extrude" /\ ~Mounted(Len(visited))) =>
           pc = "failed" /\ error = "No job present"

\* A walk whose last node is an Extrude that was handled without an error:
\* a Solid, then a Mount with the normal along X came before it.
C30_Witness ==
    /\ pc = "walk"
    /\ visited # <<>>
    /\ LastKind = "Extrude"
    /\ converter.CurrentNormal = <<1, 0, 0>>
    /\ converter.CurrentJob > converter.CurrentPart
    /\ converter.CurrentPart # None


=============================================================================
